---- MODULE Spec2Model ----
(***************************************************************************)
(* Verification model of the OpenOrCadParser (O2CP) stream parser.         *)
(*                                                                         *)
(* Two specifications share this module:                                   *)
(*   Spec        the library assembler: Parser construction, extraction    *)
(*               into a temporary directory, populateFilePaths,            *)
(*               parseLibrary with one step per parseFile call site, and   *)
(*               the destructor.                                           *)
(*   SpecStream  the byte level readers applied to one open DataStream:    *)
(*               prefixes, preamble, records and top level stream readers. *)
(***************************************************************************)
EXTENDS Integers, Sequences, FiniteSets, TLC

VARIABLES
    \* ---- library assembler (class Parser) ----
    aFile,            \* extension of the path given to the constructor (sequence of characters)
    container,        \* the tree the container extractor yields: [files, dirs]
    pc,               \* life cycle of the Parser object
    tmpDirExists,     \* the extraction directory <tmp>/OpenOrCadParser/<uuid> exists on disk
    mFileType,        \* Parser::mFileType
    mRemainingFiles,  \* Parser::mRemainingFiles
    mCurrOpenFile,    \* Parser::mCurrOpenFile (<<>> when cleared)
    dsOpen,           \* Parser::mDs holds an open stream
    mFileCtr,         \* Parser::mFileCtr
    mFileErrCtr,      \* Parser::mFileErrCtr
    mLibrary,         \* Parser::mLibrary
    fileStruct,       \* the FileStructure local of parseLibrary
    site,             \* position inside parseLibrary: [k, i, j]
    opened,           \* history: the call sites whose parseFile call has been made, in order
    raised,           \* history: number of parseFile calls in which opening or parsing raised
    \* ---- byte level readers (DataStream mDs and the readers working on it) ----
    data,             \* content of the open stream, a sequence of bytes
    pos,              \* current offset of mDs
    reader,           \* the reader that ran on the stream ("none" before)
    status,           \* "ready", "ok" (reader returned) or "failed" (reader threw)
    result,           \* what the reader returned / recorded
    strLst,           \* mLibrary.symbolsLibrary.strLst as seen by the readers
    textFonts         \* mLibrary.symbolsLibrary.textFonts.size() as seen by the readers

asmVars == <<aFile, container, pc, tmpDirExists, mFileType, mRemainingFiles, mCurrOpenFile,
             dsOpen, mFileCtr, mFileErrCtr, mLibrary, fileStruct, site, opened, raised>>
dsVars  == <<data, pos, reader, status, result, strLst, textFonts>>
vars    == <<asmVars, dsVars>>

(***************************************************************************)
(* Bounds of the model                                                     *)
(***************************************************************************)
MaxStreams    == 1   \* streams per Packages/, Symbols/ and Pages/ folder
MaxSchematics == 1   \* schematic folders under Views/
MaxRaise      == 1   \* parseFile calls per run that raise
MaxRuns       == 2   \* parseLibrary calls on one Parser
MaxPairs      == 2   \* (name, value) index pairs of a short prefix
MaxIdx        == 3   \* largest string table index in a stream; strLst holds up to MaxIdx - 1
MaxItems      == 2   \* entries of a list inside a stream (nets, types, views, records)
MaxRecordLen  == 2   \* bytes a record outside the model consumes

(***************************************************************************)
(* Paths and container trees.  A path is a tuple of names relative to the  *)
(* extraction root; the root itself is <<>>.                               *)
(***************************************************************************)
Names == <<"n1", "n2", "n3", "n4">>

\* order in which a directory iteration of the model yields entries
DirOrder == <<"$Types$.bin", "ERC.bin", "n1", "n2", "n3", "n4", "stray",
              "Hierarchy", "Pages", "Schematic.bin">>

IsPrefix(p, q) == Len(p) <= Len(q) /\ SubSeq(q, 1, Len(p)) = p

RootFiles ==
    { <<"Library.bin">>, <<"Cache.bin">>, <<"AdminData.bin">>, <<"NetBundleMapData.bin">>,
      <<"Cells Directory.bin">>, <<"ExportBlocks Directory.bin">>,
      <<"Graphics Directory.bin">>, <<"Packages Directory.bin">>,
      <<"Parts Directory.bin">>, <<"Symbols Directory.bin">>, <<"Views Directory.bin">> }

RootDirs ==
    { <<>>, <<"Cells">>, <<"ExportBlocks">>, <<"Graphics">>, <<"Packages">>, <<"Parts">>,
      <<"Symbols">>, <<"Views">> }

FullTree(n, nV, hasHier, hasPages) ==
    [ files |->
          RootFiles
          \cup { <<"Graphics", "$Types$.bin">>, <<"Symbols", "$Types$.bin">>,
                 <<"Symbols", "ERC.bin">> }
          \cup { <<"Packages", Names[i]>> : i \in 1..n }
          \cup { <<"Symbols", Names[i]>> : i \in 1..n }
          \cup { <<"Views", Names[v], "Schematic.bin">> : v \in 1..nV }
          \cup (IF hasHier
                THEN { <<"Views", Names[v], "Hierarchy", "Hierarchy.bin">> : v \in 1..nV }
                ELSE {})
          \cup (IF hasPages
                THEN { <<"Views", Names[x[1]], "Pages", Names[x[2]]>> : x \in (1..nV) \X (1..n) }
                ELSE {}),
      dirs |->
          RootDirs
          \cup { <<"Views", Names[v]>> : v \in 1..nV }
          \cup (IF hasHier THEN { <<"Views", Names[v], "Hierarchy">> : v \in 1..nV } ELSE {})
          \cup (IF hasPages THEN { <<"Views", Names[v], "Pages">> : v \in 1..nV } ELSE {}) ]

\* the tree without entry e and everything below it
Without(tree, e) ==
    [ files |-> { f \in tree.files : ~IsPrefix(e, f) },
      dirs  |-> { d \in tree.dirs : ~IsPrefix(e, d) } ]

RECURSIVE WithoutAll(_, _)
WithoutAll(tree, es) ==
    IF es = {} THEN tree
    ELSE LET e == CHOOSE x \in es : TRUE
         IN  WithoutAll(Without(tree, e), es \ {e})

\* entries populateFilePaths treats as optional at the root
OptionalRootEntries ==
    { <<"AdminData.bin">>, <<"NetBundleMapData.bin">>, <<"Cells Directory.bin">> }

\* entries populateFilePaths requires (the per-schematic Schematic.bin is added per tree)
RequiredRootEntries ==
    { <<"Cache.bin">>, <<"Library.bin">>, <<"Cells">>, <<"ExportBlocks">>, <<"Graphics">>,
      <<"Packages">>, <<"Parts">>, <<"Symbols">>, <<"Views">>,
      <<"ExportBlocks Directory.bin">>, <<"Graphics Directory.bin">>,
      <<"Packages Directory.bin">>, <<"Parts Directory.bin">>, <<"Symbols Directory.bin">>,
      <<"Views Directory.bin">>, <<"Graphics", "$Types$.bin">>, <<"Symbols", "$Types$.bin">> }

SchematicBins(tree) == { f \in tree.files : Len(f) = 3 /\ f[3] = "Schematic.bin" }

\* trees in which every required entry is present and any subset of the optional ones
SoundTrees ==
    { WithoutAll(FullTree(c[1], c[2], c[3], c[4]), c[5]) :
        c \in (0..MaxStreams) \X (0..MaxSchematics) \X BOOLEAN \X BOOLEAN
              \X (SUBSET OptionalRootEntries) }

\* trees lacking one required entry
DefectiveTrees ==
    UNION { { Without(t, e) : e \in RequiredRootEntries \cup SchematicBins(t) } :
            t \in SoundTrees }

\* trees with an entry of the wrong kind where populateFilePaths iterates a folder
StrayTrees ==
    { [t EXCEPT !.files = @ \cup {<<"Views", "stray">>}] : t \in SoundTrees }
    \cup UNION { { [t EXCEPT !.dirs = @ \cup {d \o <<"stray">>}] :
                    d \in { x \in t.dirs : Len(x) = 3 /\ x[3] = "Pages" } } :
                 t \in SoundTrees }

Containers == SoundTrees \cup DefectiveTrees \cup StrayTrees

(***************************************************************************)
(* Parser::getFileTypeByExtension                                          *)
(***************************************************************************)
LowerCase == <<"a", "b", "c", "d", "e", "f", "g", "h", "i", "j", "k", "l", "m",
               "n", "o", "p", "q", "r", "s", "t", "u", "v", "w", "x", "y", "z">>
UpperCase == <<"A", "B", "C", "D", "E", "F", "G", "H", "I", "J", "K", "L", "M",
               "N", "O", "P", "Q", "R", "S", "T", "U", "V", "W", "X", "Y", "Z">>

\* std::toupper on one character
toupper(c) ==
    IF \E i \in 1..Len(LowerCase) : LowerCase[i] = c
    THEN UpperCase[CHOOSE i \in 1..Len(LowerCase) : LowerCase[i] = c]
    ELSE c

\* std::transform left out: the comparison becomes case sensitive
transformNothing(ext) == ext

\* std::transform(extension.begin(), extension.end(), extension.begin(), toupper)
transformToUpper(ext) == [i \in 1..Len(ext) |-> toupper(ext[i])]

\* keys of extensionFileTypeMap
extensionFileTypeMap(key) ==
    CASE key = <<".", "O", "L", "B">> -> "Library"
      [] key = <<".", "O", "B", "K">> -> "Library"
      [] key = <<".", "D", "S", "N">> -> "Schematic"
      [] key = <<".", "D", "B", "K">> -> "Schematic"
      [] OTHER -> "none"

\* [thrown, fileType]: throws std::runtime_error when the map has no such key
getFileTypeByExtension(ext) ==
    LET extension == transformToUpper(ext)
        found     == extensionFileTypeMap(extension)
    IN  IF found = "none"
        THEN [thrown |-> TRUE, fileType |-> "unset"]
        ELSE [thrown |-> FALSE, fileType |-> found]

\* extensions given to the constructor
Extensions ==
    { <<".", "o", "l", "b">>, <<".", "O", "L", "B">>, <<".", "O", "b", "k">>,
      <<".", "d", "s", "n">>, <<".", "D", "B", "K">>, <<".", "t", "x", "t">>,
      <<".", "o", "l">>, <<>> }

ReferenceContainer == FullTree(MaxStreams, MaxSchematics, TRUE, TRUE)

\* the inputs of a run: every extension on the reference container, and every
\* container under the extension .OLB
Inputs ==
    { [ext |-> e, tree |-> ReferenceContainer] : e \in Extensions }
    \cup { [ext |-> <<".", "O", "L", "B">>, tree |-> t] : t \in Containers }

(***************************************************************************)
(* Library, default constructed                                            *)
(***************************************************************************)
DefaultObj == [from |-> <<>>]
DefaultSymbolsLibrary == [strLst |-> <<>>, textFonts |-> <<>>]

DefaultLibrary ==
    [ exportBlocksDir |-> DefaultObj, graphicsDir |-> DefaultObj, packagesDir |-> DefaultObj,
      partsDir |-> DefaultObj, symbolsDir |-> DefaultObj, cellsDir |-> DefaultObj,
      viewsDir |-> DefaultObj, graphicsTypes |-> DefaultObj, symbolsTypes |-> DefaultObj,
      symbolsLibrary |-> DefaultSymbolsLibrary, packages |-> <<>> ]

NoFileStruct ==
    [ ExportBlocksDir |-> <<>>, GraphicsDir |-> <<>>, PackagesDir |-> <<>>, PartsDir |-> <<>>,
      SymbolsDir |-> <<>>, CellsDir |-> <<>>, ViewsDir |-> <<>>, AdminData |-> <<>>,
      NetBundleMapData |-> <<>>, GraphicsTypes |-> <<>>, SymbolsTypes |-> <<>>,
      Library |-> <<>>, PackagesPackages |-> <<>>, SymbolsSymbols |-> <<>>,
      ViewsSchematicsSchematic |-> <<>>, ViewsSchematicsHierarchyHierarchy |-> <<>>,
      ViewsSchematicsPagesPages |-> <<>> ]

(***************************************************************************)
(* Parser::Parser and Parser::~Parser                                      *)
(***************************************************************************)
\* Parser::extractContainer: the extractor writes the tree below a fresh
\* directory <tmp>/OpenOrCadParser/<uuid> and returns the root inside it, or
\* throws, leaving whatever it had created so far.
extractContainer(ok) ==
    IF ok THEN { [thrown |-> FALSE, dirCreated |-> TRUE] }
    ELSE { [thrown |-> TRUE, dirCreated |-> c] : c \in BOOLEAN }

\* The constructor. A throwing constructor leaves no object behind, so the
\* destructor never runs for it.
Construct ==
    /\ pc = "start"
    /\ LET ft == getFileTypeByExtension(aFile)
       IN  IF ft.thrown
           THEN /\ pc' = "ctor_failed"
                /\ UNCHANGED <<tmpDirExists, mFileType, mRemainingFiles>>
           ELSE /\ mFileType' = ft.fileType
                /\ \E sizeOk \in BOOLEAN, extractOk \in BOOLEAN, iterOk \in BOOLEAN :
                     IF ~sizeOk
                     THEN \* fs::file_size(aFile) throws
                          /\ pc' = "ctor_failed"
                          /\ UNCHANGED <<tmpDirExists, mRemainingFiles>>
                     ELSE \E x \in extractContainer(extractOk) :
                            IF x.thrown
                            THEN /\ pc' = "ctor_failed"
                                 /\ tmpDirExists' = x.dirCreated
                                 /\ UNCHANGED mRemainingFiles
                            ELSE IF ~iterOk
                            THEN \* fs::recursive_directory_iterator throws
                                 /\ pc' = "ctor_failed"
                                 /\ tmpDirExists' = x.dirCreated
                                 /\ UNCHANGED mRemainingFiles
                            ELSE /\ pc' = "constructed"
                                 /\ tmpDirExists' = x.dirCreated
                                 /\ mRemainingFiles' = container.files
    /\ UNCHANGED <<aFile, container, mCurrOpenFile, dsOpen, mFileCtr, mFileErrCtr, mLibrary,
                   fileStruct, site, opened, raised, dsVars>>

\* The destructor: fs::remove_all(mExtractedPath.parent_path()), then the
\* warning about the files never parsed.
Destroy ==
    /\ pc \in {"constructed", "done", "aborted"}
    /\ pc' = "destroyed"
    /\ tmpDirExists' = FALSE
    /\ UNCHANGED <<aFile, container, mFileType, mRemainingFiles, mCurrOpenFile, dsOpen,
                   mFileCtr, mFileErrCtr, mLibrary, fileStruct, site, opened, raised, dsVars>>

(***************************************************************************)
(* Parser::populateFilePaths                                               *)
(***************************************************************************)
exists(tree, p)       == p \in tree.files \cup tree.dirs
\* sanityFileExists / sanityFolderExists do not throw
fileExists(tree, p)   == p \in tree.files
folderExists(tree, p) == p \in tree.dirs

Rank(name) == CHOOSE i \in 1..Len(DirOrder) : DirOrder[i] = name

RECURSIVE SortedSeq(_)
SortedSeq(S) ==
    IF S = {} THEN <<>>
    ELSE LET m == CHOOSE x \in S : \A y \in S : Rank(x[Len(x)]) <= Rank(y[Len(y)])
         IN  <<m>> \o SortedSeq(S \ {m})

\* fs::directory_iterator(dir): the entries directly below dir
directory_iterator(tree, dir) ==
    SortedSeq({ p \in tree.files \cup tree.dirs : Len(p) = Len(dir) + 1 /\ IsPrefix(dir, p) })

\* std::optional<fs::path> as a sequence of length 0 or 1
OptionalPath(tree, p) == IF exists(tree, p) THEN <<p>> ELSE <<>>

IsNotErcOrTypes(p) == p[Len(p)] # "$Types$.bin" /\ p[Len(p)] # "ERC.bin"

\* the check of Cache.bin left out
RequiredEntriesPresentButCache(tree) ==
    /\ folderExists(tree, <<>>)
    /\ folderExists(tree, <<"Cells">>)
    /\ folderExists(tree, <<"ExportBlocks">>)
    /\ fileExists(tree, <<"ExportBlocks Directory.bin">>)
    /\ folderExists(tree, <<"Graphics">>)
    /\ fileExists(tree, <<"Graphics Directory.bin">>)
    /\ fileExists(tree, <<"Graphics", "$Types$.bin">>)
    /\ fileExists(tree, <<"Library.bin">>)
    /\ folderExists(tree, <<"Packages">>)
    /\ fileExists(tree, <<"Packages Directory.bin">>)
    /\ folderExists(tree, <<"Parts">>)
    /\ fileExists(tree, <<"Parts Directory.bin">>)
    /\ folderExists(tree, <<"Symbols">>)
    /\ fileExists(tree, <<"Symbols Directory.bin">>)
    /\ fileExists(tree, <<"Symbols", "$Types$.bin">>)
    /\ folderExists(tree, <<"Views">>)
    /\ fileExists(tree, <<"Views Directory.bin">>)

\* the sanityFileExists / sanityFolderExists calls of populateFilePaths, all passing
RequiredEntriesPresent(tree) ==
    /\ folderExists(tree, <<>>)
    /\ fileExists(tree, <<"Cache.bin">>)
    /\ folderExists(tree, <<"Cells">>)
    /\ folderExists(tree, <<"ExportBlocks">>)
    /\ fileExists(tree, <<"ExportBlocks Directory.bin">>)
    /\ folderExists(tree, <<"Graphics">>)
    /\ fileExists(tree, <<"Graphics Directory.bin">>)
    /\ fileExists(tree, <<"Graphics", "$Types$.bin">>)
    /\ fileExists(tree, <<"Library.bin">>)
    /\ folderExists(tree, <<"Packages">>)
    /\ fileExists(tree, <<"Packages Directory.bin">>)
    /\ folderExists(tree, <<"Parts">>)
    /\ fileExists(tree, <<"Parts Directory.bin">>)
    /\ folderExists(tree, <<"Symbols">>)
    /\ fileExists(tree, <<"Symbols Directory.bin">>)
    /\ fileExists(tree, <<"Symbols", "$Types$.bin">>)
    /\ folderExists(tree, <<"Views">>)
    /\ fileExists(tree, <<"Views Directory.bin">>)

\* [thrown, fs]: fills the FileStructure or throws at the first failing check
populateFilePaths(tree) ==
    IF ~RequiredEntriesPresent(tree)
    THEN [thrown |-> TRUE, fs |-> NoFileStruct]
    ELSE
    LET views          == directory_iterator(tree, <<"Views">>)
        strayInViews   == \E i \in 1..Len(views) : views[i] \notin tree.dirs
        schematics     == [i \in 1..Len(views) |-> views[i] \o <<"Schematic.bin">>]
        schematicGone  == \E i \in 1..Len(views) : ~fileExists(tree, schematics[i])
        hasHierarchy(d) == exists(tree, d \o <<"Hierarchy", "Hierarchy.bin">>)
        hasPages(d)     == exists(tree, d \o <<"Pages">>)
        hierarchies    == [i \in 1..Len(SelectSeq(views, hasHierarchy)) |->
                             SelectSeq(views, hasHierarchy)[i] \o <<"Hierarchy", "Hierarchy.bin">>]
        pagesDirs      == [i \in 1..Len(SelectSeq(views, hasPages)) |->
                             SelectSeq(views, hasPages)[i] \o <<"Pages">>]
        pages          == [i \in 1..Len(pagesDirs) |-> directory_iterator(tree, pagesDirs[i])]
        strayInPages   == \E i \in 1..Len(pages) : \E j \in 1..Len(pages[i]) :
                             pages[i][j] \notin tree.files
    IN  IF strayInViews \/ schematicGone \/ strayInPages
        THEN [thrown |-> TRUE, fs |-> NoFileStruct]
        ELSE [thrown |-> FALSE,
              fs |-> [ ExportBlocksDir  |-> <<"ExportBlocks Directory.bin">>,
                       GraphicsDir      |-> <<"Graphics Directory.bin">>,
                       PackagesDir      |-> <<"Packages Directory.bin">>,
                       PartsDir         |-> <<"Parts Directory.bin">>,
                       SymbolsDir       |-> <<"Symbols Directory.bin">>,
                       CellsDir         |-> OptionalPath(tree, <<"Cells Directory.bin">>),
                       ViewsDir         |-> <<"Views Directory.bin">>,
                       AdminData        |-> OptionalPath(tree, <<"AdminData.bin">>),
                       NetBundleMapData |-> OptionalPath(tree, <<"NetBundleMapData.bin">>),
                       GraphicsTypes    |-> <<"Graphics", "$Types$.bin">>,
                       SymbolsTypes     |-> <<"Symbols", "$Types$.bin">>,
                       Library          |-> <<"Library.bin">>,
                       PackagesPackages |-> directory_iterator(tree, <<"Packages">>),
                       SymbolsSymbols   |->
                           SelectSeq(directory_iterator(tree, <<"Symbols">>), IsNotErcOrTypes),
                       ViewsSchematicsSchematic          |-> schematics,
                       ViewsSchematicsHierarchyHierarchy |-> hierarchies,
                       ViewsSchematicsPagesPages         |-> pages ] ]

(***************************************************************************)
(* Parser::openFile, closeFile, exceptionHandling, parseFile               *)
(* ps is the part of the Parser these methods touch:                       *)
(*   [mFileCtr, mFileErrCtr, mRemainingFiles, mCurrOpenFile, dsOpen]       *)
(* An exception is "std" (derived from std::exception) or "other".         *)
(***************************************************************************)
\* openFile without mRemainingFiles.erase(it)
openFileKeepsRemaining(ps, aFilePath, canOpen) ==
    IF aFilePath \notin ps.mRemainingFiles
    THEN [thrown |-> "std", ps |-> ps]
    ELSE IF ~canOpen
    THEN [thrown |-> "std", ps |-> [ps EXCEPT !.dsOpen = FALSE]]
    ELSE [thrown |-> "none", ps |-> [ps EXCEPT !.dsOpen = TRUE, !.mCurrOpenFile = aFilePath]]

\* [thrown, ps]; canOpen: whether DataStream{aFile} can open the file
openFile(ps, aFilePath, canOpen) ==
    IF aFilePath \notin ps.mRemainingFiles
    THEN [thrown |-> "std", ps |-> ps]
    ELSE LET erased == [ps EXCEPT !.mRemainingFiles = @ \ {aFilePath}]
         IN  IF ~canOpen
             THEN [thrown |-> "std", ps |-> [erased EXCEPT !.dsOpen = FALSE]]
             ELSE [thrown |-> "none",
                   ps |-> [erased EXCEPT !.dsOpen = TRUE, !.mCurrOpenFile = aFilePath]]

closeFile(ps) == [ps EXCEPT !.dsOpen = FALSE, !.mCurrOpenFile = <<>>]

\* the rethrow inside exceptionHandling: only the std::exception handler counts
exceptionHandling(ps, exc) ==
    IF exc = "std" THEN [ps EXCEPT !.mFileErrCtr = @ + 1] ELSE ps

\* parseFile<T>(aFilePath, aParseFunc) -> [ps, parsed_obj, thrown].
\* beh is what the file and aParseFunc do: [opens, throws]; val is what aParseFunc
\* returns when it returns; dflt is the default constructed T.
parseFile(ps, aFilePath, beh, val, dflt) ==
    LET counted == [ps EXCEPT !.mFileCtr = @ + 1]
        o       == openFile(counted, aFilePath, beh.opens)
    IN  IF o.thrown # "none"
        THEN [ps |-> exceptionHandling(o.ps, o.thrown), parsed_obj |-> dflt, thrown |-> o.thrown]
        ELSE IF beh.throws # "none"
        THEN [ps |-> exceptionHandling(o.ps, beh.throws), parsed_obj |-> dflt,
              thrown |-> beh.throws]
        ELSE [ps |-> closeFile(o.ps), parsed_obj |-> val, thrown |-> "none"]

OkBehaviour == [opens |-> TRUE, throws |-> "none"]

Behaviours ==
    { OkBehaviour, [opens |-> TRUE, throws |-> "std"], [opens |-> TRUE, throws |-> "other"],
      [opens |-> FALSE, throws |-> "none"] }

(***************************************************************************)
(* Parser::parseLibrary, one step per parseFile call                       *)
(***************************************************************************)
\* the Library stream parsed after the packages and symbols
SiteOrderLibraryLate ==
    << "ExportBlocksDir", "GraphicsDir", "PackagesDir", "PartsDir", "SymbolsDir", "CellsDir",
       "ViewsDir", "AdminData", "NetBundleMapData", "GraphicsTypes", "SymbolsTypes",
       "Package", "Symbol", "Library", "Schematic", "Hierarchy", "Page", "Summary" >>

\* the parseFile call sites of parseLibrary in program order, then the summary
SiteOrder ==
    << "ExportBlocksDir", "GraphicsDir", "PackagesDir", "PartsDir", "SymbolsDir", "CellsDir",
       "ViewsDir", "AdminData", "NetBundleMapData", "GraphicsTypes", "SymbolsTypes", "Library",
       "Package", "Symbol", "Schematic", "Hierarchy", "Page", "Summary" >>

\* the next position at or after [k, i, j] at which parseLibrary makes a call:
\* the has_value() tests and the loop conditions
RECURSIVE Seek(_, _, _, _)
Seek(fs, k, i, j) ==
    LET at   == SiteOrder[k]
        here == [k |-> k, i |-> i, j |-> j]
        loop(seq) == IF i <= Len(seq) THEN here ELSE Seek(fs, k + 1, 1, 1)
    IN  CASE at = "AdminData" ->
               IF Len(fs.AdminData) = 1 THEN here ELSE Seek(fs, k + 1, 1, 1)
          [] at = "NetBundleMapData" ->
               IF Len(fs.NetBundleMapData) = 1 THEN here ELSE Seek(fs, k + 1, 1, 1)
          [] at = "Package"   -> loop(fs.PackagesPackages)
          [] at = "Symbol"    -> loop(fs.SymbolsSymbols)
          [] at = "Schematic" -> loop(fs.ViewsSchematicsSchematic)
          [] at = "Hierarchy" -> loop(fs.ViewsSchematicsHierarchyHierarchy)
          [] at = "Page" ->
               IF i > Len(fs.ViewsSchematicsPagesPages) THEN Seek(fs, k + 1, 1, 1)
               ELSE IF j > Len(fs.ViewsSchematicsPagesPages[i]) THEN Seek(fs, k, i + 1, 1)
               ELSE here
          [] OTHER -> here

NoSite == [k |-> 0, i |-> 0, j |-> 0]
At(name) == pc = "parsing" /\ SiteOrder[site.k] = name

\* what a parse function returns when it returns
Parsed(name, path) ==
    IF name = "Library"
    THEN [strLst |-> <<"a", "b">>, textFonts |-> <<"f">>]
    ELSE [from |-> path]

DefaultOf(name) == IF name = "Library" THEN DefaultSymbolsLibrary ELSE DefaultObj

\* the default object parseFile returns for a failed stream not pushed back
storeDroppingFailed(lib, name, obj) ==
    CASE name = "ExportBlocksDir" -> [lib EXCEPT !.exportBlocksDir = obj]
      [] name = "GraphicsDir"     -> [lib EXCEPT !.graphicsDir = obj]
      [] name = "PackagesDir"     -> [lib EXCEPT !.packagesDir = obj]
      [] name = "PartsDir"        -> [lib EXCEPT !.partsDir = obj]
      [] name = "SymbolsDir"      -> [lib EXCEPT !.symbolsDir = obj]
      [] name = "CellsDir"        -> [lib EXCEPT !.cellsDir = obj]
      [] name = "ViewsDir"        -> [lib EXCEPT !.viewsDir = obj]
      [] name = "GraphicsTypes"   -> [lib EXCEPT !.graphicsTypes = obj]
      [] name = "SymbolsTypes"    -> [lib EXCEPT !.symbolsTypes = obj]
      [] name = "Library"         -> [lib EXCEPT !.symbolsLibrary = obj]
      [] name \in {"Package", "Symbol"} ->
             IF obj = DefaultObj THEN lib ELSE [lib EXCEPT !.packages = Append(@, obj)]
      [] OTHER -> lib

\* packages.push_back replaced by an assignment
storeOverwritingPackages(lib, name, obj) ==
    CASE name = "ExportBlocksDir" -> [lib EXCEPT !.exportBlocksDir = obj]
      [] name = "GraphicsDir"     -> [lib EXCEPT !.graphicsDir = obj]
      [] name = "PackagesDir"     -> [lib EXCEPT !.packagesDir = obj]
      [] name = "PartsDir"        -> [lib EXCEPT !.partsDir = obj]
      [] name = "SymbolsDir"      -> [lib EXCEPT !.symbolsDir = obj]
      [] name = "CellsDir"        -> [lib EXCEPT !.cellsDir = obj]
      [] name = "ViewsDir"        -> [lib EXCEPT !.viewsDir = obj]
      [] name = "GraphicsTypes"   -> [lib EXCEPT !.graphicsTypes = obj]
      [] name = "SymbolsTypes"    -> [lib EXCEPT !.symbolsTypes = obj]
      [] name = "Library"         -> [lib EXCEPT !.symbolsLibrary = obj]
      [] name \in {"Package", "Symbol"} -> [lib EXCEPT !.packages = <<obj>>]
      [] OTHER -> lib

\* what parseLibrary does with the object parseFile returned at call site `name`
store(lib, name, obj) ==
    CASE name = "ExportBlocksDir" -> [lib EXCEPT !.exportBlocksDir = obj]
      [] name = "GraphicsDir"     -> [lib EXCEPT !.graphicsDir = obj]
      [] name = "PackagesDir"     -> [lib EXCEPT !.packagesDir = obj]
      [] name = "PartsDir"        -> [lib EXCEPT !.partsDir = obj]
      [] name = "SymbolsDir"      -> [lib EXCEPT !.symbolsDir = obj]
      [] name = "CellsDir"        -> [lib EXCEPT !.cellsDir = obj]
      [] name = "ViewsDir"        -> [lib EXCEPT !.viewsDir = obj]
      [] name = "GraphicsTypes"   -> [lib EXCEPT !.graphicsTypes = obj]
      [] name = "SymbolsTypes"    -> [lib EXCEPT !.symbolsTypes = obj]
      [] name = "Library"         -> [lib EXCEPT !.symbolsLibrary = obj]
      [] name \in {"Package", "Symbol"} -> [lib EXCEPT !.packages = Append(@, obj)]
      [] OTHER -> lib

ParserState ==
    [ mFileCtr |-> mFileCtr, mFileErrCtr |-> mFileErrCtr, mRemainingFiles |-> mRemainingFiles,
      mCurrOpenFile |-> mCurrOpenFile, dsOpen |-> dsOpen ]

\* one parseFile call of parseLibrary at call site `name` on `path`, after which
\* control is at position `next`
Call(name, path, next) ==
    /\ At(name)
    /\ \E beh \in Behaviours :
         /\ beh # OkBehaviour => raised < MaxRaise
         /\ LET r == parseFile(ParserState, path, beh, Parsed(name, path), DefaultOf(name))
            IN  /\ mFileCtr' = r.ps.mFileCtr
                /\ mFileErrCtr' = r.ps.mFileErrCtr
                /\ mRemainingFiles' = r.ps.mRemainingFiles
                /\ mCurrOpenFile' = r.ps.mCurrOpenFile
                /\ dsOpen' = r.ps.dsOpen
                /\ mLibrary' = store(mLibrary, name, r.parsed_obj)
                /\ raised' = IF r.thrown # "none" THEN raised + 1 ELSE raised
    /\ opened' = Append(opened, path)
    /\ site' = next
    /\ UNCHANGED <<aFile, container, pc, tmpDirExists, mFileType, fileStruct, dsVars>>

AfterSingle == Seek(fileStruct, site.k + 1, 1, 1)
AfterItem   == Seek(fileStruct, site.k, site.i + 1, 1)
AfterPage   == Seek(fileStruct, site.k, site.i, site.j + 1)

\* populateFilePaths at the head of parseLibrary
StartParseLibrary ==
    /\ pc = "constructed"
    /\ LET r == populateFilePaths(container)
       IN  IF r.thrown
           THEN pc' = "aborted" /\ UNCHANGED <<fileStruct, site>>
           ELSE pc' = "parsing" /\ fileStruct' = r.fs /\ site' = Seek(r.fs, 1, 1, 1)
    /\ UNCHANGED <<aFile, container, tmpDirExists, mFileType, mRemainingFiles, mCurrOpenFile,
                   dsOpen, mFileCtr, mFileErrCtr, mLibrary, opened, raised, dsVars>>

ParseExportBlocksDir == Call("ExportBlocksDir", fileStruct.ExportBlocksDir, AfterSingle)
ParseGraphicsDir     == Call("GraphicsDir", fileStruct.GraphicsDir, AfterSingle)
ParsePackagesDir     == Call("PackagesDir", fileStruct.PackagesDir, AfterSingle)
ParsePartsDir        == Call("PartsDir", fileStruct.PartsDir, AfterSingle)
ParseSymbolsDir      == Call("SymbolsDir", fileStruct.SymbolsDir, AfterSingle)

\* fileStruct.CellsDir.value() is evaluated before parseFile is entered:
\* std::bad_optional_access leaves parseLibrary
ParseCellsDir ==
    IF Len(fileStruct.CellsDir) = 1
    THEN Call("CellsDir", fileStruct.CellsDir[1], AfterSingle)
    ELSE /\ At("CellsDir")
         /\ pc' = "aborted"
         /\ UNCHANGED <<aFile, container, tmpDirExists, mFileType, mRemainingFiles,
                        mCurrOpenFile, dsOpen, mFileCtr, mFileErrCtr, mLibrary, fileStruct,
                        site, opened, raised, dsVars>>

ParseViewsDir == Call("ViewsDir", fileStruct.ViewsDir, AfterSingle)

\* readAdminData(path) and readNetBundleMapData(path): the stream goes through
\* the same wrapper, the returned object is dropped
readAdminData        == Call("AdminData", fileStruct.AdminData[1], AfterSingle)
readNetBundleMapData == Call("NetBundleMapData", fileStruct.NetBundleMapData[1], AfterSingle)

ParseGraphicsTypes == Call("GraphicsTypes", fileStruct.GraphicsTypes, AfterSingle)
ParseSymbolsTypes  == Call("SymbolsTypes", fileStruct.SymbolsTypes, AfterSingle)
ParseSymbolsLibrary == Call("Library", fileStruct.Library, AfterSingle)
ParsePackage   == Call("Package", fileStruct.PackagesPackages[site.i], AfterItem)
ParseSymbol    == Call("Symbol", fileStruct.SymbolsSymbols[site.i], AfterItem)
ParseSchematic == Call("Schematic", fileStruct.ViewsSchematicsSchematic[site.i], AfterItem)
ParseHierarchy ==
    Call("Hierarchy", fileStruct.ViewsSchematicsHierarchyHierarchy[site.i], AfterItem)
ParsePage ==
    Call("Page", fileStruct.ViewsSchematicsPagesPages[site.i][site.j], AfterPage)

\* the "Errors in N/M files!" line and the return of mLibrary
Summary ==
    /\ At("Summary")
    /\ pc' = "done"
    /\ UNCHANGED <<aFile, container, tmpDirExists, mFileType, mRemainingFiles, mCurrOpenFile,
                   dsOpen, mFileCtr, mFileErrCtr, mLibrary, fileStruct, site, opened, raised,
                   dsVars>>

(***************************************************************************)
(* Specification of the library assembler                                  *)
(***************************************************************************)
DsIdle ==
    /\ data = <<>> /\ pos = 0 /\ reader = "none" /\ status = "ready"
    /\ result = <<>> /\ strLst = <<>> /\ textFonts = 0

Init ==
    /\ \E in \in Inputs : aFile = in.ext /\ container = in.tree
    /\ pc = "start"
    /\ tmpDirExists = FALSE
    /\ mFileType = "unset"
    /\ mRemainingFiles = {}
    /\ mCurrOpenFile = <<>>
    /\ dsOpen = FALSE
    /\ mFileCtr = 0
    /\ mFileErrCtr = 0
    /\ mLibrary = DefaultLibrary
    /\ fileStruct = NoFileStruct
    /\ site = NoSite
    /\ opened = <<>>
    /\ raised = 0
    /\ DsIdle

Next ==
    \/ Construct
    \/ Destroy
    \/ StartParseLibrary
    \/ ParseExportBlocksDir
    \/ ParseGraphicsDir
    \/ ParsePackagesDir
    \/ ParsePartsDir
    \/ ParseSymbolsDir
    \/ ParseCellsDir
    \/ ParseViewsDir
    \/ readAdminData
    \/ readNetBundleMapData
    \/ ParseGraphicsTypes
    \/ ParseSymbolsTypes
    \/ ParseSymbolsLibrary
    \/ ParsePackage
    \/ ParseSymbol
    \/ ParseSchematic
    \/ ParseHierarchy
    \/ ParsePage
    \/ Summary

Spec == Init /\ [][Next]_vars

(***************************************************************************)
(* Specification of a Parser whose parseLibrary is called again after it   *)
(* returned, up to MaxRuns times in all: mRemainingFiles, the counters and *)
(* mLibrary are members and keep what the earlier call left.               *)
(***************************************************************************)
\* parseLibrary called on the Parser on which it has returned
ParseLibraryAgain ==
    /\ pc = "done"
    /\ Len(opened) < MaxRuns * Cardinality({ opened[i] : i \in 1..Len(opened) })
    /\ LET r == populateFilePaths(container)
       IN  IF r.thrown
           THEN pc' = "aborted" /\ UNCHANGED <<fileStruct, site>>
           ELSE pc' = "parsing" /\ fileStruct' = r.fs /\ site' = Seek(r.fs, 1, 1, 1)
    /\ UNCHANGED <<aFile, container, tmpDirExists, mFileType, mRemainingFiles, mCurrOpenFile,
                   dsOpen, mFileCtr, mFileErrCtr, mLibrary, opened, raised, dsVars>>

NextAgain == Next \/ ParseLibraryAgain

SpecAgain == Init /\ [][NextAgain]_vars

(***************************************************************************)
(* Claims about the library assembler (checked under Spec)                 *)
(***************************************************************************)

\* C1: every parseFile call in which opening or parsing raises, whatever the
\* type of the exception, increments mFileErrCtr by exactly 1 and parseLibrary
\* goes on with the remaining streams.
C1_EveryRaiseCountedAndRunGoesOn ==
    [][raised' = raised + 1 => (mFileErrCtr' = mFileErrCtr + 1 /\ pc' = "parsing")]_vars

LibraryScalarFields ==
    { "exportBlocksDir", "graphicsDir", "packagesDir", "partsDir", "symbolsDir", "cellsDir",
      "viewsDir", "graphicsTypes", "symbolsTypes" }

\* C5: when a stream fails inside parseFile, every Library field filled by an
\* earlier successful stream (directories, types, symbolsLibrary with strLst and
\* text fonts, earlier entries of packages) keeps the value it had before.
C5_FailedStreamKeepsEarlierResults ==
    [][raised' = raised + 1 =>
         /\ \A f \in LibraryScalarFields :
               mLibrary[f] # DefaultObj => mLibrary'[f] = mLibrary[f]
         /\ mLibrary.symbolsLibrary # DefaultSymbolsLibrary =>
               mLibrary'.symbolsLibrary = mLibrary.symbolsLibrary
         /\ Len(mLibrary'.packages) >= Len(mLibrary.packages)
         /\ \A i \in 1..Len(mLibrary.packages) :
               mLibrary'.packages[i] = mLibrary.packages[i]]_vars

\* a symbol stream failed after the Library stream and a package had been parsed
C5_Witness ==
    /\ raised >= 1
    /\ mLibrary.symbolsLibrary.strLst # <<>>
    /\ Len(mLibrary.packages) >= 2
    /\ mLibrary.packages[1] # DefaultObj
    /\ mLibrary.packages[Len(mLibrary.packages)] = DefaultObj

\* the class of streams a path belongs to, in the words of the parsing order
StreamClass(p) ==
    CASE p = <<"ExportBlocks Directory.bin">> -> "ExportBlocks"
      [] p = <<"Graphics Directory.bin">>     -> "Graphics"
      [] p = <<"Packages Directory.bin">>     -> "Packages"
      [] p = <<"Parts Directory.bin">>        -> "Parts"
      [] p = <<"Symbols Directory.bin">>      -> "Symbols"
      [] p = <<"Cells Directory.bin">>        -> "Cells"
      [] p = <<"Views Directory.bin">>        -> "Views"
      [] p = <<"AdminData.bin">>              -> "AdminData"
      [] p = <<"NetBundleMapData.bin">>       -> "NetBundleMapData"
      [] p = <<"Graphics", "$Types$.bin">>    -> "Graphics $Types$"
      [] p = <<"Symbols", "$Types$.bin">>     -> "Symbols $Types$"
      [] p = <<"Library.bin">>                -> "Library"
      [] Len(p) = 2 /\ p[1] = "Packages"      -> "package"
      [] Len(p) = 2 /\ p[1] = "Symbols" /\ p[2] # "ERC.bin" -> "symbol"
      [] Len(p) = 3 /\ p[3] = "Schematic.bin" -> "schematic"
      [] Len(p) = 4 /\ p[3] = "Hierarchy"     -> "hierarchy"
      [] Len(p) = 4 /\ p[3] = "Pages"         -> "page"
      [] OTHER -> "none"

ClaimedOrder ==
    << "ExportBlocks", "Graphics", "Packages", "Parts", "Symbols", "Cells", "Views",
       "AdminData", "NetBundleMapData", "Graphics $Types$", "Symbols $Types$", "Library",
       "package", "symbol", "schematic", "hierarchy", "page" >>

ClaimedRank(p) == CHOOSE r \in 1..Len(ClaimedOrder) : ClaimedOrder[r] = StreamClass(p)

RepeatedClasses == {"package", "symbol", "schematic", "hierarchy", "page"}

\* C6: streams are opened in the fixed order directories (ExportBlocks, Graphics,
\* Packages, Parts, Symbols, Cells, Views), AdminData, NetBundleMapData, the two
\* $Types$, Library, packages, symbols, schematics, hierarchies, pages; no stream
\* twice; a completed run has opened every such stream of the container.
C6_FixedParsingOrder ==
    LET n      == Len(opened)
        before == { opened[i] : i \in 1..n }
    IN  /\ \A i \in 1..n : StreamClass(opened[i]) # "none"
        /\ Cardinality(before) = n
        /\ \A i \in 1..(n - 1) :
              \/ ClaimedRank(opened[i]) < ClaimedRank(opened[i + 1])
              \/ /\ StreamClass(opened[i]) = StreamClass(opened[i + 1])
                 /\ StreamClass(opened[i]) \in RepeatedClasses
        /\ pc = "done" => before = { f \in container.files : StreamClass(f) # "none" }

\* a run over a container with both optional root streams, a package, a symbol,
\* a schematic with hierarchy and a page has completed
C6_Witness ==
    /\ pc = "done"
    /\ \A c \in {"AdminData", "NetBundleMapData", "Library", "package", "symbol",
                 "schematic", "hierarchy", "page"} :
          \E i \in 1..Len(opened) : StreamClass(opened[i]) = c

\* C7: a container with every required entry, lacking any subset of AdminData,
\* NetBundleMapData, Cells Directory, Hierarchy.bin and Pages/, is parsed to
\* completion: no error leaves parseLibrary.
C7_OptionalEntriesNeverAbort ==
    container \in SoundTrees => pc # "aborted"

\* C8: with a required entry missing, parseLibrary aborts in populateFilePaths
\* before any stream is opened: the counters are 0 and the Library untouched.
C8_MissingRequiredAbortsBeforeAnyStream ==
    container \in DefectiveTrees =>
        /\ pc \notin {"parsing", "done"}
        /\ mFileCtr = 0
        /\ mFileErrCtr = 0
        /\ opened = <<>>
        /\ mLibrary = DefaultLibrary
        /\ mRemainingFiles \in {{}, container.files}

C8_Witness == container \in DefectiveTrees /\ pc = "aborted"

\* C9: the temporary extraction directory is gone on every exit path: after the
\* Parser is destroyed and after a constructor that failed.
C9_TmpDirRemovedOnEveryExit ==
    pc \in {"destroyed", "ctor_failed"} => ~tmpDirExists

ClaimedLibraryExtensions ==
    { <<".", "o", "l", "b">>, <<".", "O", "L", "B">>, <<".", "O", "b", "k">> }
ClaimedSchematicExtensions ==
    { <<".", "d", "s", "n">>, <<".", "D", "B", "K">> }

\* C10: the extension decides the file type ignoring case (.OLB/.OBK Library,
\* .DSN/.DBK Schematic); any other extension makes the constructor fail before
\* anything is extracted.
C10_FileTypeByExtension ==
    pc # "start" =>
        CASE aFile \in ClaimedLibraryExtensions   -> mFileType = "Library"
          [] aFile \in ClaimedSchematicExtensions -> mFileType = "Schematic"
          [] OTHER -> /\ pc = "ctor_failed"
                      /\ ~tmpDirExists
                      /\ mFileType = "unset"
                      /\ mRemainingFiles = {}

\* a lower case .olb was classified and extracted
C10_Witness ==
    aFile = <<".", "o", "l", "b">> /\ pc = "constructed" /\ mFileType = "Library"

(***************************************************************************)
(* DataStream: a positioned reader over the bytes of one stream.  A reader *)
(* state s is [pos, err]: the current offset and the exception in flight   *)
(* ("none" while there is none).  Every operation passes a state that      *)
(* already carries an exception through unchanged.                         *)
(***************************************************************************)
Start == [pos |-> 0, err |-> "none"]
Good(s) == s.err = "none"
Throw(s, e) == [s EXCEPT !.err = e]

\* a value of 2^31 or more: beyond every length and offset of the model
Huge == 2147483647

Uint8At(d, p)  == d[p + 1]
Uint16At(d, p) == d[p + 1] + 256 * d[p + 2]
Int16At(d, p)  == IF Uint16At(d, p) >= 32768 THEN Uint16At(d, p) - 65536 ELSE Uint16At(d, p)
Uint32At(d, p) ==
    IF d[p + 4] >= 128 THEN Huge
    ELSE d[p + 1] + 256 * d[p + 2] + 65536 * d[p + 3] + 16777216 * d[p + 4]

\* DataStream::read of n bytes (readUint8/16/32, readInt16, printUnknownData)
read(d, s, n) ==
    IF ~Good(s) THEN s
    ELSE IF n <= Len(d) - s.pos THEN [s EXCEPT !.pos = @ + n]
    ELSE Throw(s, "eof")

\* DataStream::assumeData
assumeData(d, s, expected) ==
    IF ~Good(s) THEN s
    ELSE IF s.pos + Len(expected) > Len(d) THEN Throw(s, "eof")
    ELSE IF SubSeq(d, s.pos + 1, s.pos + Len(expected)) # expected THEN Throw(s, "assume")
    ELSE [s EXCEPT !.pos = @ + Len(expected)]

\* offset of the first NUL at or after p, -1 when there is none
RECURSIVE NulAt(_, _)
NulAt(d, p) ==
    IF p >= Len(d) THEN -1
    ELSE IF d[p + 1] = 0 THEN p
    ELSE NulAt(d, p + 1)

\* DataStream::readStringLenZeroTerm: the bytes up to the NUL, the NUL consumed
readStringLenZeroTerm(d, s) ==
    IF ~Good(s) THEN s
    ELSE IF NulAt(d, s.pos) = -1 THEN Throw(s, "eof")
    ELSE [s EXCEPT !.pos = NulAt(d, s.pos) + 1]

StringAt(d, p) == SubSeq(d, p + 1, NulAt(d, p))

\* DataStream::isEoF
isEoF(d, s) == s.pos = Len(d)

(***************************************************************************)
(* Enum conversions: an unknown value throws.  The model keeps a few       *)
(* values of each table.                                                   *)
(***************************************************************************)
\* PartInst 0x0D, T0x10, WireScalar 0x14, T0x1f
StructureTags == {13, 16, 20, 31}
\* View 0x09, GlobalSymbol 0x21
ComponentTypes == {9, 33}
\* colour indices, Default being 0x30
Colors == 0..48

\* a check of a reader: throws e when cond holds
ThrowIf(s, cond, e) == IF Good(s) /\ cond THEN Throw(s, e) ELSE s

\* the value read between the states s and after, dflt when the read failed
Uint8Read(d, s, after, dflt)  == IF Good(after) THEN Uint8At(d, s.pos) ELSE dflt
Uint16Read(d, s, after, dflt) == IF Good(after) THEN Uint16At(d, s.pos) ELSE dflt
Int16Read(d, s, after, dflt)  == IF Good(after) THEN Int16At(d, s.pos) ELSE dflt
Uint32Read(d, s, after, dflt) == IF Good(after) THEN Uint32At(d, s.pos) ELSE dflt

\* reads n bytes holding an enum of the values `known`
readEnum(d, s, n, known) ==
    ThrowIf(read(d, s, n),
            (IF n = 1 THEN Uint8At(d, s.pos) ELSE Uint16At(d, s.pos)) \notin known, "enum")

ToStructure(d, s)     == readEnum(d, s, 1, StructureTags)
ToComponentType(d, s) == readEnum(d, s, 2, ComponentTypes)
ToColor(d, s)         == readEnum(d, s, 1, Colors)

(***************************************************************************)
(* Parser::read_type_prefix_short, read_type_prefix, read_type_prefix_long *)
(* and readPreamble                                                        *)
(***************************************************************************)
\* the lambda getStr of read_type_prefix_short: [thrown, str]
getStr(strs, idx) ==
    LET newIdx == idx - 1
    IN  IF newIdx >= 0
        THEN IF newIdx < Len(strs)
             THEN [thrown |-> FALSE, str |-> strs[newIdx + 1]]
             ELSE [thrown |-> TRUE, str |-> ""]
        ELSE [thrown |-> FALSE, str |-> ""]

\* the first loop of read_type_prefix_short: size pairs read from offset p on
nameValueMapping(d, p, size) ==
    [i \in 1..size |-> <<Uint32At(d, p + 8 * (i - 1)), Uint32At(d, p + 8 * (i - 1) + 4)>>]

\* the second loop: both strings of every pair are looked up
getStrs(strs, pairs) ==
    [i \in 1..Len(pairs) |-> <<getStr(strs, pairs[i][1]), getStr(strs, pairs[i][2])>>]

anyThrown(got) == \E i \in 1..Len(got) : got[i][1].thrown \/ got[i][2].thrown

strsOf(got) == [i \in 1..Len(got) |-> <<got[i][1].str, got[i][2].str>>]

\* the pairs read for a negative size too: |size| of them
read_type_prefix_shortPairsOfNegativeSize(d, s, strs) ==
    LET s1    == ToStructure(d, s)
        s2    == read(d, s1, 4)
        s3    == read(d, s2, 4)
        s4    == ToStructure(d, s3)
        s5    == read(d, s4, 2)
        size  == Int16Read(d, s4, s5, -1)
        s6    == read(d, s5, 8 * (IF size >= 0 THEN size ELSE -size))
    IN  [ s |-> s6, typeId |-> Uint8Read(d, s, s1, -1), typeIdRep |-> Uint8Read(d, s3, s4, -1),
          pairs |-> <<>>, looked |-> <<>> ]

\* -> [s, typeId, typeIdRep, pairs, looked]
read_type_prefix_short(d, s, strs) ==
    LET s1    == ToStructure(d, s)          \* typeId
        s2    == read(d, s1, 4)             \* byteLength: any value is accepted
        s3    == read(d, s2, 4)             \* printUnknownData(4)
        s4    == ToStructure(d, s3)         \* typeIdRep
        s5    == read(d, s4, 2)             \* size
        size  == Int16Read(d, s4, s5, -1)
        s6    == read(d, s5, 8 * (IF size >= 0 THEN size ELSE 0))
        pairs == IF Good(s6) THEN nameValueMapping(d, s5.pos, size) ELSE <<>>
        got   == getStrs(strs, pairs)
        s7    == ThrowIf(s6, anyThrown(got), "strLst")
    IN  [ s |-> s7, typeId |-> Uint8Read(d, s, s1, -1), typeIdRep |-> Uint8Read(d, s3, s4, -1),
          pairs |-> pairs, looked |-> IF Good(s7) THEN strsOf(got) ELSE <<>> ]

\* the comparison of read_type_prefix and read_type_prefix_long: typeId is the
\* tag read first, inner what the reader of the inner form returned
typeIdCheck(typeId, inner) == ThrowIf(inner.s, typeId # inner.typeId, "typeId")

prefixResult(typeId, offset, short) ==
    [s |-> typeIdCheck(typeId, short), typeId |-> typeId, mByteOffset |-> offset,
     short |-> short]

\* -> [s, typeId, mByteOffset, short]
read_type_prefix(d, s, strs) ==
    LET s1 == ToStructure(d, s)
        s2 == read(d, s1, 4)
        s3 == assumeData(d, s2, <<0, 0, 0, 0>>)
    IN  prefixResult(Uint8Read(d, s, s1, -1), Uint32Read(d, s1, s2, 0),
                     read_type_prefix_short(d, s3, strs))

longPrefixResult(typeId, std) ==
    [s |-> typeIdCheck(typeId, std), typeId |-> typeId, std |-> std]

\* the short form read right behind the nine leading bytes
read_type_prefix_longOverShort(d, s, strs) ==
    LET s1 == ToStructure(d, s)
        s2 == read(d, s1, 2)
        s3 == assumeData(d, s2, <<0, 0, 0, 0, 0, 0>>)
    IN  longPrefixResult(Uint8Read(d, s, s1, -1),
                         prefixResult(read_type_prefix_short(d, s3, strs).typeId, 0,
                                      read_type_prefix_short(d, s3, strs)))

\* -> [s, typeId, std]
read_type_prefix_long(d, s, strs) ==
    LET s1 == ToStructure(d, s)
        s2 == read(d, s1, 2)
        s3 == assumeData(d, s2, <<0, 0, 0, 0, 0, 0>>)
    IN  longPrefixResult(Uint8Read(d, s, s1, -1), read_type_prefix(d, s3, strs))

\* the optional bytes left in the stream
preambleResultUnskipped(d, s, optionalLen) == [s |-> s, optionalLen |-> optionalLen]

\* mDs.printUnknownData(optionalLen, ...); return optionalLen
preambleResult(d, s, optionalLen) == [s |-> read(d, s, optionalLen), optionalLen |-> optionalLen]

\* -> [s, optionalLen]
readPreamble(d, s, readOptionalLen) ==
    LET s1 == assumeData(d, s, <<255, 228, 92, 57>>)
        s2 == IF readOptionalLen THEN read(d, s1, 4) ELSE s1
    IN  preambleResult(d, s2, IF readOptionalLen THEN Uint32Read(d, s1, s2, 0) ELSE 0)

(***************************************************************************)
(* Record readers                                                          *)
(***************************************************************************)
\* uint32_t idx - 1: wraps to 0xFFFFFFFF for idx = 0
Uint32Minus1(idx) == IF idx = 0 THEN Huge ELSE idx - 1

\* std::vector::at: [thrown, str]
vectorAt(strs, i) ==
    IF i < Len(strs) THEN [thrown |-> FALSE, str |-> strs[i + 1]]
    ELSE [thrown |-> TRUE, str |-> ""]

\* the check of bits 13 downto 8 left out
displayPropTailAnyBits(d, s, packedStruct, nFonts) ==
    LET s6  == ThrowIf(s, packedStruct % 256 > nFonts, "textFontIdx")
        s8  == ToColor(d, s6)
        s9  == read(d, s8, 2)
    IN  assumeData(d, s9, <<0>>)

\* the part of readSymbolDisplayProp after packedStruct was read into state s
displayPropTail(d, s, packedStruct, nFonts) ==
    LET s6  == ThrowIf(s, packedStruct % 256 > nFonts, "textFontIdx")
        s7  == ThrowIf(s6, (packedStruct \div 256) % 64 # 0, "bits")
        s8  == ToColor(d, s7)
        s9  == read(d, s8, 2)
    IN  assumeData(d, s9, <<0>>)

\* Parser::readSymbolDisplayProp
\* -> [s, nameIdx, textFontIdx, rotation, strItem]
readSymbolDisplayProp(d, s, strs, nFonts) ==
    LET s1      == read(d, s, 4)
        nameIdx == Uint32Read(d, s, s1, 0)
        item    == vectorAt(strs, Uint32Minus1(nameIdx))
        s2      == ThrowIf(s1, item.thrown, "strLst")
        s3      == read(d, s2, 2)       \* x
        s4      == read(d, s3, 2)       \* y
        s5      == read(d, s4, 2)
        packedStruct == Uint16Read(d, s4, s5, 0)
    IN  [ s |-> displayPropTail(d, s5, packedStruct, nFonts), nameIdx |-> nameIdx,
          textFontIdx |-> packedStruct % 256, rotation |-> packedStruct \div 16384,
          strItem |-> item.str ]

\* Parser::parseStructure and the readStructure of the Stream classes: the record
\* readers are outside this model; a record is taken to consume `len` bytes
\* (at least its tag), or to throw when len is -1.
parseStructure(d, s, len) ==
    IF ~Good(s) THEN s
    ELSE IF len = -1 THEN Throw(s, "record")
    ELSE read(d, s, len)

readStructure(d, s, len) == parseStructure(d, s, len)

(***************************************************************************)
(* Top level stream readers                                                *)
(***************************************************************************)
\* the loop of readHierarchy: k nets left
RECURSIVE readHierarchyNets(_, _, _, _)
readHierarchyNets(d, s, strs, k) ==
    IF k = 0 \/ ~Good(s) THEN s
    ELSE LET short == read_type_prefix_short(d, s, strs)
             pre   == readPreamble(d, short.s, TRUE)
             s1    == read(d, pre.s, 4)               \* dbId
             s2    == readStringLenZeroTerm(d, s1)    \* net name
         IN  readHierarchyNets(d, s2, strs, k - 1)

\* Parser::readHierarchy
readHierarchy(d, s, strs) ==
    LET s1     == read(d, s, 9)
        s2     == readStringLenZeroTerm(d, s1)
        s3     == read(d, s2, 9)
        s4     == read(d, s3, 2)
    IN  readHierarchyNets(d, s4, strs, Uint16Read(d, s3, s4, 0))

\* the loop ending silently, with the partial entry kept, when the stream
\* ends inside an entry
RECURSIVE parseTypesUntilShort(_, _, _)
parseTypesUntilShort(d, s, types) ==
    IF ~Good(s) \/ isEoF(d, s) THEN [s |-> s, types |-> types]
    ELSE LET s1 == readStringLenZeroTerm(d, s)
             s2 == ToComponentType(d, s1)
         IN  IF Good(s2)
             THEN parseTypesUntilShort(d, s2, Append(types, StringAt(d, s.pos)))
             ELSE [s |-> s, types |-> Append(types, StringAt(d, s.pos))]

\* Parser::parseTypes -> [s, types]: the names read so far
RECURSIVE parseTypes(_, _, _)
parseTypes(d, s, types) ==
    IF ~Good(s) \/ isEoF(d, s) THEN [s |-> s, types |-> types]
    ELSE LET s1 == readStringLenZeroTerm(d, s)
             s2 == ToComponentType(d, s1)
         IN  IF Good(s2)
             THEN parseTypes(d, s2, Append(types, StringAt(d, s.pos)))
             ELSE [s |-> s2, types |-> types]

\* the loop of StreamViewsDirectory::read: k items left
RECURSIVE readViewsItems(_, _, _)
readViewsItems(d, s, k) ==
    IF k = 0 \/ ~Good(s) THEN s
    ELSE LET s1 == readStringLenZeroTerm(d, s)
             s2 == ToComponentType(d, s1)
             s3 == read(d, s2, 14)
             s4 == read(d, s3, 2)     \* fileFormatVersion: unknown ones are logged
             s5 == read(d, s4, 2)     \* timezone
             s6 == read(d, s5, 2)
         IN  readViewsItems(d, s6, k - 1)

ExpectEoF(d, s) == IF Good(s) /\ ~isEoF(d, s) THEN Throw(s, "Expected EoF") ELSE s

\* StreamViewsDirectory::read
StreamViewsDirectory_read(d, s) ==
    LET s1   == read(d, s, 4)
        s2   == read(d, s1, 2)
    IN  ExpectEoF(d, readViewsItems(d, s2, Uint16Read(d, s1, s2, 0)))

\* the inner loop of StreamPackage::read
RECURSIVE StreamPackage_primitives(_, _, _, _)
StreamPackage_primitives(d, s, k, len) ==
    IF k = 0 \/ ~Good(s) THEN s
    ELSE StreamPackage_primitives(d, readStructure(d, s, len), k - 1, len)

\* the outer loop of StreamPackage::read
RECURSIVE StreamPackage_properties(_, _, _, _)
StreamPackage_properties(d, s, k, len) ==
    IF k = 0 \/ ~Good(s) THEN s
    ELSE LET s1 == readStructure(d, s, len)
             s2 == read(d, s1, 2)
             lenPrimitives == Uint16Read(d, s1, s2, 0)
         IN  StreamPackage_properties(d, StreamPackage_primitives(d, s2, lenPrimitives, len),
                                      k - 1, len)

\* StreamPackage::read
StreamPackage_read(d, s, len) ==
    LET s1 == read(d, s, 2)
        s2 == StreamPackage_properties(d, s1, Uint16Read(d, s, s1, 0), len)
        s3 == readStructure(d, s2, len)      \* t0x1f
    IN  ExpectEoF(d, s3)

\* the len1 loop of parsePage
RECURSIVE parsePageNames(_, _, _)
parsePageNames(d, s, k) ==
    IF k = 0 \/ ~Good(s) THEN s
    ELSE parsePageNames(d, read(d, readStringLenZeroTerm(d, s), 4), k - 1)

\* the len2, len3 and lenX loops of parsePage: k records left; veryLong says that
\* the next record is the first of the len3 loop, whose prefix is 47 skipped bytes
RECURSIVE parsePageStructures(_, _, _, _, _, _)
parsePageStructures(d, s, strs, k, veryLong, len) ==
    IF k = 0 \/ ~Good(s) THEN s
    ELSE LET s1 == IF veryLong THEN read(d, s, 47) ELSE read_type_prefix(d, s, strs).s
             s2 == readPreamble(d, s1, TRUE).s
             s3 == parseStructure(d, s2, len)
         IN  parsePageStructures(d, s3, strs, k - 1, FALSE, len)

\* a u16 count at the position of s, then count times unit bytes
readCounted(d, s, unit) == read(d, read(d, s, 2), unit * Uint16Read(d, s, read(d, s, 2), 0))

\* a u16 count at the position of s, then that many names / records
countedNames(d, s) == parsePageNames(d, read(d, s, 2), Uint16Read(d, s, read(d, s, 2), 0))

countedStructures(d, s, strs, veryLong, len) ==
    parsePageStructures(d, read(d, s, 2), strs, Uint16Read(d, s, read(d, s, 2), 0),
                        veryLong, len)

\* the header of a page: prefix, preamble, name, pageSize, settings
parsePageHeader(d, s) ==
    LET h0  == read(d, s, 21)
        h1  == readPreamble(d, h0, TRUE).s
        h2  == readStringLenZeroTerm(d, h1)     \* name
        h3  == readStringLenZeroTerm(d, h2)     \* pageSize
        h4  == read(d, h3, 4 + 4 + 16)          \* dates, unknown
        h5  == read(d, h4, 4 + 4 + 4 + 2)       \* width, height, pinToPin, unknown
        h6  == read(d, h5, 2 + 2 + 2 + 4 + 4)   \* grid counts, unknown, grid widths
        h7  == read(d, h6, 48 + 4 + 4 + 4 + 4 + 4 + 4)
    IN  read(d, h7, 8 * 4)                      \* isMetric .. ansiGridRefs

\* the lenX loop and the end of the page
parsePageLenX(d, s, strs, len) == ExpectEoF(d, countedStructures(d, read(d, s, 10), strs, FALSE, len))

\* the len3 loop and what follows it
parsePageLen3(d, s, strs, len) == parsePageLenX(d, countedStructures(d, s, strs, TRUE, len), strs, len)

\* the len2 loop and what follows it
parsePageLen2(d, s, strs, len) == parsePageLen3(d, countedStructures(d, s, strs, FALSE, len), strs, len)

\* the len1 loop and what follows it
parsePageLen1(d, s, strs, len) == parsePageLen2(d, countedNames(d, s), strs, len)

\* the len0 block, two bytes, and what follows them
parsePageLen0(d, s, strs, len) == parsePageLen1(d, read(d, readCounted(d, s, 32), 2), strs, len)

\* Parser::parsePage
parsePage(d, s, strs, len) == parsePageLen0(d, readCounted(d, parsePageHeader(d, s), 8), strs, len)

(***************************************************************************)
(* Record readers of the structures                                        *)
(***************************************************************************)
\* the string read between the states s and after, empty when the read failed
StringRead(d, s, after) == IF Good(s) /\ Good(after) THEN StringAt(d, s.pos) ELSE <<>>

\* the switch without its default case: any viewNumber but 2 reads name only
readPropertiesViewsNoDefault(d, s, viewNumber) ==
    LET s4 == IF viewNumber = 2 THEN readStringLenZeroTerm(d, s) ELSE s
        s5 == readStringLenZeroTerm(d, s4)
    IN  [ s |-> read(d, s5, 29), viewNumber |-> viewNumber, at |-> s.pos,
          convertName |-> IF viewNumber = 2 THEN StringRead(d, s, s4) ELSE <<>>,
          name |-> StringRead(d, s4, s5) ]

\* Parser::readProperties from the switch on viewNumber, read into state s
readPropertiesViews(d, s, viewNumber) ==
    LET s4 == IF viewNumber = 2 THEN readStringLenZeroTerm(d, s)
              ELSE ThrowIf(s, viewNumber # 1, "viewNumber")
        s5 == readStringLenZeroTerm(d, s4)
    IN  [ s |-> read(d, s5, 29), viewNumber |-> viewNumber, at |-> s.pos,
          convertName |-> IF viewNumber = 2 THEN StringRead(d, s, s4) ELSE <<>>,
          name |-> StringRead(d, s4, s5) ]

\* Parser::readProperties -> [s, viewNumber, at, convertName, name]
\* (at: the offset after the viewNumber field)
readProperties(d, s) ==
    LET s1 == readStringLenZeroTerm(d, s)       \* ref
        s2 == assumeData(d, s1, <<0, 0, 0>>)
        s3 == read(d, s2, 2)
    IN  IF Good(s3) THEN readPropertiesViews(d, s3, Uint16At(d, s3.pos - 2))
        ELSE [ s |-> s3, viewNumber |-> -1, at |-> -1, convertName |-> <<>>, name |-> <<>> ]

\* TrailingProperties::read from the tests of viewNumber, read into state s
TrailingPropertiesViews(d, s, viewNumber) ==
    LET s1 == IF viewNumber \in {1, 2} THEN readStringLenZeroTerm(d, s) ELSE s
        s2 == IF viewNumber = 2 THEN readStringLenZeroTerm(d, s1) ELSE s1
    IN  [ s |-> ThrowIf(s2, viewNumber # 1 /\ viewNumber # 2, "viewNumber"),
          viewNumber |-> viewNumber, at |-> s.pos,
          normalName |-> IF viewNumber \in {1, 2} THEN StringRead(d, s, s1) ELSE <<>>,
          convertName |-> IF viewNumber = 2 THEN StringRead(d, s1, s2) ELSE <<>> ]

\* TrailingProperties::read -> [s, viewNumber, at, normalName, convertName]
TrailingProperties_read(d, s) ==
    LET s1 == read(d, s, 2)
    IN  IF Good(s1) THEN TrailingPropertiesViews(d, s1, Uint16At(d, s1.pos - 2))
        ELSE [ s |-> s1, viewNumber |-> -1, at |-> -1, normalName |-> <<>>, convertName |-> <<>> ]

\* the separator bytes readPinIdxMapping accepts
PinSeparators == {127, 170, 255}

\* the loop with every separator byte accepted
RECURSIVE readPinMapAnySeparator(_, _, _, _)
readPinMapAnySeparator(d, s, k, pinMap) ==
    IF k = 0 \/ ~Good(s) THEN [s |-> s, pinMap |-> pinMap]
    ELSE LET s1 == readStringLenZeroTerm(d, s)
         IN  readPinMapAnySeparator(d, read(d, s1, 1), k - 1,
                                    Append(pinMap, StringRead(d, s, s1)))

\* the loop of Parser::readPinIdxMapping: k pins left -> [s, pinMap]
RECURSIVE readPinMap(_, _, _, _)
readPinMap(d, s, k, pinMap) ==
    IF k = 0 \/ ~Good(s) THEN [s |-> s, pinMap |-> pinMap]
    ELSE LET s1 == readStringLenZeroTerm(d, s)
             s2 == read(d, s1, 1)
         IN  readPinMap(d, ThrowIf(s2, Uint8Read(d, s1, s2, 127) \notin PinSeparators, "separator"),
                        k - 1, Append(pinMap, StringRead(d, s, s1)))

\* Parser::readPinIdxMapping -> [s, pinMap]
readPinIdxMapping(d, s) ==
    LET s1 == readStringLenZeroTerm(d, s)       \* unitRef
        s2 == readStringLenZeroTerm(d, s1)      \* refDes
        s3 == read(d, s2, 2)
    IN  readPinMap(d, s3, Uint16Read(d, s2, s3, 0), <<>>)

\* enum class LineStyle and enum class LineWidth
LineStyles == 0..5
LineWidths == 0..3

\* ToColor, ToLineWidth, ToLineStyle of a readUint32
readEnum32(d, s, known) == ThrowIf(read(d, s, 4), Uint32At(d, s.pos) \notin known, "enum")

\* the nested records of readWireScalar: k records left, nested holds the
\* offsets <<start, after prefix, after preamble, end>> of the records read
RECURSIVE wireScalarNested(_, _, _, _, _, _)
wireScalarNested(d, s, strs, k, len, nested) ==
    IF k = 0 \/ ~Good(s) THEN [s |-> s, nested |-> nested]
    ELSE LET s1 == read_type_prefix(d, s, strs).s
             s2 == readPreamble(d, s1, TRUE).s
             s3 == parseStructure(d, s2, len)
         IN  wireScalarNested(d, s3, strs, k - 1, len,
                              Append(nested, <<s.pos, s1.pos, s2.pos, s3.pos>>))

\* the two extra bytes read for every mByteOffset from 0x3d on
wireScalarMiddleFrom0x3d(d, s, strs, mByteOffset, len) ==
    IF mByteOffset >= 61 THEN [s |-> read(d, s, 2), nested |-> <<>>]
    ELSE [s |-> s, nested |-> <<>>]

\* the branches on mByteOffset of readWireScalar -> [s, nested]
wireScalarMiddle(d, s, strs, mByteOffset, len) ==
    IF mByteOffset = 61 THEN [s |-> read(d, s, 2), nested |-> <<>>]
    ELSE IF mByteOffset > 61
    THEN wireScalarNested(d, read(d, s, 2), strs, Uint16Read(d, s, read(d, s, 2), 0), len, <<>>)
    ELSE [s |-> s, nested |-> <<>>]

\* the end of readWireScalar: 2 bytes, wireLineWidth, wireLineStyle
wireScalarTail(d, mid, from, mByteOffset) ==
    [ s |-> readEnum32(d, readEnum32(d, read(d, mid.s, 2), LineWidths), LineStyles),
      mByteOffset |-> mByteOffset, from |-> from, to |-> mid.s.pos, nested |-> mid.nested ]

\* readWireScalar from the branches on mByteOffset on
wireScalarFrom(d, s, strs, mByteOffset, len) ==
    wireScalarTail(d, wireScalarMiddle(d, s, strs, mByteOffset, len), s.pos, mByteOffset)

\* Parser::readWireScalar -> [s, mByteOffset, from, to, nested]: dbId, 4 bytes,
\* wireColor, startX, startY, endX, endY, 1 byte; the branches
\* on mByteOffset read the bytes from..to
readWireScalar(d, s, strs, mByteOffset, len) ==
    wireScalarFrom(d, read(d, read(d, readEnum32(d, read(d, read(d, s, 4), 4), Colors), 16), 1),
                   strs, mByteOffset, len)

\* a record as the loops of parsePage read it: read_type_prefix, readPreamble
\* and the reader of the record; mByteOffset is the one of its prefix
WireScalarBehind(d, prefix, strs, len) ==
    readWireScalar(d, readPreamble(d, prefix.s, TRUE).s, strs, prefix.mByteOffset, len)

WireScalarRecord(d, strs, len) == WireScalarBehind(d, read_type_prefix(d, Start, strs), strs, len)

(***************************************************************************)
(* Parser::parseGeometrySpecification.  A GeometrySpecification is         *)
(* [name, rects, lines, arcs]: the model keeps three of the ten kinds.     *)
(* The body of a primitive is read by readRect, readLine, ...: an opaque   *)
(* body of len bytes, len = -1 for a body the reader rejects.              *)
(***************************************************************************)
\* enum class GeometryStructure: Rect, Line, Arc
GeometryStructures == {40, 41, 42}

\* enum class FileFormatVersion
FileFormatVersions == {"A", "B", "C"}

DefaultGeometrySpecification == [name |-> <<>>, rects |-> <<>>, lines |-> <<>>, arcs |-> <<>>]

\* container.<kind>s.push_back(primitive)
push_back(geo, kind, primitive) ==
    CASE kind = 40 -> [geo EXCEPT !.rects = Append(@, primitive)]
      [] kind = 41 -> [geo EXCEPT !.lines = Append(@, primitive)]
      [] kind = 42 -> [geo EXCEPT !.arcs  = Append(@, primitive)]

\* readRect, readLine, readArc, ...
readGeometryPrimitive(d, s, len) ==
    IF ~Good(s) THEN s
    ELSE IF len = -1 THEN Throw(s, "primitive")
    ELSE read(d, s, len)

\* Parser::readGeometryStructure -> [s, obj]: obj is *geometrySpecification
\* after the call; the primitive starts at the position of s
readGeometryStructure(d, s, kind, len, geometrySpecification) ==
    [ s   |-> readGeometryPrimitive(d, s, len),
      obj |-> IF Good(readGeometryPrimitive(d, s, len))
              THEN push_back(DefaultGeometrySpecification, kind,
                             SubSeq(d, s.pos + 1, readGeometryPrimitive(d, s, len).pos))
              ELSE geometrySpecification ]

\* version C reads the type prefix between the primitives as version B does
geometryBetweenPrefixFromB(d, s, strs, version, first) ==
    LET s1 == IF ~first /\ version \in {"B", "C"} THEN read_type_prefix(d, s, strs).s ELSE s
    IN  [ afterPrefix |-> s1.pos,
          s |-> IF ~first /\ version \in {"B", "C"} THEN readPreamble(d, s1, TRUE).s ELSE s1 ]

\* what parseGeometrySpecification reads before the two kind bytes of a
\* primitive -> [s, afterPrefix]
geometryBetween(d, s, strs, version, first) ==
    LET s1 == IF ~first /\ version = "B" THEN read_type_prefix(d, s, strs).s ELSE s
    IN  [ afterPrefix |-> s1.pos,
          s |-> IF ~first /\ version \in {"B", "C"} THEN readPreamble(d, s1, TRUE).s ELSE s1 ]

\* the prefix of three bytes read before the primitives of the other
\* geometry contexts as well
geometryKindsAroundZero(d, s) ==
    assumeData(d, assumeData(d, readEnum(d, s, 1, GeometryStructures), <<0>>),
               <<IF Good(s) /\ s.pos < Len(d) THEN d[s.pos + 1] ELSE 0>>)

\* geometryStructure1, geometryStructure2 and their comparison
geometryKinds(d, s) ==
    LET s1 == readEnum(d, s, 1, GeometryStructures)
        s2 == readEnum(d, s1, 1, GeometryStructures)
    IN  ThrowIf(s2, Uint8At(d, s.pos) # Uint8At(d, s1.pos), "geometry")

kindOf(d, s) == IF Good(s) /\ s.pos < Len(d) THEN d[s.pos + 1] ELSE 0

\* the loop of parseGeometrySpecification: k primitives left ->
\* [s, obj, extents], extents the offsets <<start of the iteration, after the
\* type prefix, after the preamble, end of the primitive>> of the iterations
RECURSIVE parseGeometryPrimitives(_, _, _, _, _, _, _, _, _)
RECURSIVE geometryIteration(_, _, _, _, _, _, _, _, _)
RECURSIVE geometryIterationEnd(_, _, _, _, _, _, _, _, _, _)
parseGeometryPrimitives(d, s, strs, version, len, k, first, obj, extents) ==
    IF k = 0 \/ ~Good(s) THEN [s |-> s, obj |-> obj, extents |-> extents]
    ELSE geometryIteration(d, strs, version, len, k, obj, extents, s.pos,
                           geometryBetween(d, s, strs, version, first))

geometryIteration(d, strs, version, len, k, obj, extents, iterStart, between) ==
    geometryIterationEnd(d, strs, version, len, k, extents, iterStart, between.afterPrefix,
                         between.s.pos,
                         readGeometryStructure(d, geometryKinds(d, between.s),
                                               kindOf(d, between.s), len, obj))

geometryIterationEnd(d, strs, version, len, k, extents, iterStart, afterPrefix, afterPreamble,
                     primitive) ==
    parseGeometryPrimitives(d, IF version = "A" THEN read(d, primitive.s, 8) ELSE primitive.s,
                            strs, version, len, k - 1, FALSE, primitive.obj,
                            Append(extents, <<iterStart, afterPrefix, afterPreamble,
                                              primitive.s.pos>>))

\* Parser::parseGeometrySpecification -> [s, obj, extents]
parseGeometrySpecification(d, s, strs, version, len) ==
    LET s1 == readStringLenZeroTerm(d, s)       \* obj.name
        s2 == assumeData(d, s1, <<0, 0, 0>>)
        s3 == assumeData(d, s2, <<48>>)
        s4 == assumeData(d, s3, <<0, 0, 0>>)
        s5 == read(d, s4, 2)
    IN  parseGeometryPrimitives(d, s5, strs, version, len, Uint16Read(d, s4, s5, 0), TRUE,
                                [DefaultGeometrySpecification EXCEPT !.name = StringRead(d, s, s1)],
                                <<>>)

(***************************************************************************)
(* Parser::parseStructure, the switch over the Structure it was given.     *)
(* Structures are named as enum class Structure names them.  The readers   *)
(* modelled byte by byte above are run as they are; the record of every    *)
(* other reader is the opaque record of len bytes of parseStructure above. *)
(***************************************************************************)
\* the Structures with a case in the switch
CaseStructures ==
    { "SthInPages0", "Properties", "PartInst", "T0x10", "WireScalar", "GeoDefinition",
      "SymbolPinScalar", "SymbolPinBus", "T0x1f", "PinIdxMapping", "GlobalSymbol",
      "PortSymbol", "OffPageSymbol", "SymbolDisplayProp", "Alias", "GraphicBoxInst",
      "GraphicCommentTextInst", "ERCSymbol", "PinShapeSymbol" }

\* enum class Structure: the ones above and some that have no case
Structures == CaseStructures \cup {"BusEntry", "SymbolVector", "TitleBlockSymbol"}

\* the reader each case calls
caseReader(structure) ==
    CASE structure = "SthInPages0"            -> "readSthInPages0"
      [] structure = "Properties"             -> "readProperties"
      [] structure = "PartInst"               -> "readPartInst"
      [] structure = "T0x10"                  -> "readT0x10"
      [] structure = "WireScalar"             -> "readWireScalar"
      [] structure = "GeoDefinition"          -> "parseGeometrySpecification"
      [] structure = "SymbolPinScalar"        -> "readSymbolPinScalar"
      [] structure = "SymbolPinBus"           -> "readSymbolPinBus"
      [] structure = "T0x1f"                  -> "readT0x1f"
      [] structure = "PinIdxMapping"          -> "readPinIdxMapping"
      [] structure = "GlobalSymbol"           -> "parseGlobalSymbol"
      [] structure = "PortSymbol"             -> "parseSymbolHierarchic"
      [] structure = "OffPageSymbol"          -> "parseOffPageSymbol"
      [] structure = "SymbolDisplayProp"      -> "readSymbolDisplayProp"
      [] structure = "Alias"                  -> "readAlias"
      [] structure = "GraphicBoxInst"         -> "readGraphicBoxInst"
      [] structure = "GraphicCommentTextInst" -> "readGraphicCommentTextInst"
      [] structure = "ERCSymbol"              -> "readERCSymbol"
      [] structure = "PinShapeSymbol"         -> "readPinShapeSymbol"
      [] OTHER                                -> "default"

\* the cases that call readPreamble() before their reader
casePreamble(structure) ==
    structure \in {"GeoDefinition", "GlobalSymbol", "PortSymbol", "ERCSymbol", "PinShapeSymbol"}

\* the state of the Parser the readers look at besides the stream
ParserContext(strs, nFonts, version, mByteOffset, len) ==
    [strs |-> strs, nFonts |-> nFonts, version |-> version, mByteOffset |-> mByteOffset,
     len |-> len]

\* the reader called by name on the stream in state s -> the state it leaves
callReader(name, d, s, ctx) ==
    CASE name = "readProperties"        -> readProperties(d, s).s
      [] name = "readPinIdxMapping"     -> readPinIdxMapping(d, s).s
      [] name = "readSymbolDisplayProp" -> readSymbolDisplayProp(d, s, ctx.strs, ctx.nFonts).s
      [] name = "readWireScalar"        ->
             readWireScalar(d, s, ctx.strs, ctx.mByteOffset, ctx.len).s
      [] name = "parseGeometrySpecification" ->
             parseGeometrySpecification(d, s, ctx.strs, ctx.version, ctx.len).s
      [] OTHER                          -> parseStructure(d, s, ctx.len)

\* the switch with its default case falling through to the Properties reader
parseStructure_switchNoDefault(d, s, structure, ctx) ==
    [ s      |-> callReader(IF structure \in CaseStructures THEN caseReader(structure)
                            ELSE "readProperties",
                            d, IF casePreamble(structure) THEN readPreamble(d, s, TRUE).s ELSE s,
                            ctx),
      first  |-> structure,
      called |-> caseReader(structure) ]

\* Parser::parseStructure -> [s, first, called]: first is the first component
\* of the pair returned, called the reader of the case taken
parseStructure_switch(d, s, structure, ctx) ==
    IF caseReader(structure) = "default"
    THEN [s |-> Throw(s, "not implemented"), first |-> structure, called |-> "default"]
    ELSE [ s      |-> callReader(caseReader(structure), d,
                                 IF casePreamble(structure) THEN readPreamble(d, s, TRUE).s
                                 ELSE s,
                                 ctx),
           first  |-> structure,
           called |-> caseReader(structure) ]

(***************************************************************************)
(* FutureDataLst and the readers that bracket their body with one.  A list *)
(* is [stops, parsed, cps]: the end offsets of the regions the prefixes    *)
(* declared, which of them a checkpoint has met, and the offsets at which  *)
(* checkpoint() was called.                                                *)
(***************************************************************************)
\* FutureDataLst localFutureLst{mCtx}
EmptyFutureDataLst == [stops |-> <<>>, parsed |-> <<>>, cps |-> <<>>]

\* FutureDataLst::checkpoint with the stream in state s
checkpoint(lst, s) ==
    IF ~Good(s) THEN lst
    ELSE [ stops  |-> lst.stops,
           parsed |-> [i \in 1..Len(lst.stops) |-> lst.parsed[i] \/ lst.stops[i] = s.pos],
           cps    |-> Append(lst.cps, s.pos) ]

\* FutureDataLst::sanitizeCheckpoints: a region no checkpoint has met throws
sanitizeCheckpoints(lst, s) ==
    ThrowIf(s, \E i \in 1..Len(lst.stops) : ~lst.parsed[i], "checkpoint")

\* the ends of the regions that lie behind the position of s
stopsBehind(lst, s) == { lst.stops[i] : i \in { j \in 1..Len(lst.stops) : lst.stops[j] > s.pos } }

Min(S) == CHOOSE x \in S : \A y \in S : x <= y
Max(S) == CHOOSE x \in S : \A y \in S : x >= y

\* FutureDataLst::getNextCheckpointPos, -1 for std::nullopt
getNextCheckpointPos(lst, s) ==
    IF stopsBehind(lst, s) = {} THEN -1 ELSE Min(stopsBehind(lst, s))

\* FutureDataLst::readUntilNextFutureData
readUntilNextFutureData(d, lst, s) ==
    IF ~Good(s) \/ stopsBehind(lst, s) = {} THEN s
    ELSE read(d, s, Min(stopsBehind(lst, s)) - s.pos)

\* what is left of the structure is skipped
drain(d, lst, s) ==
    IF ~Good(s) \/ stopsBehind(lst, s) = {} THEN s
    ELSE read(d, s, Max(stopsBehind(lst, s)) - s.pos)

\* a list closed in the state s: the checkpoint taken and checked
closed(lst, s) == [s |-> sanitizeCheckpoints(checkpoint(lst, s), s), lst |-> checkpoint(lst, s)]

\* FutureDataLst::readRestOfStructure -> [s, lst]: drains the trailing future
\* data and asserts the checkpoints
readRestOfStructure(d, lst, s) == closed(lst, drain(d, lst, s))

\* the prefix read and its region recorded
prefixesRead(prefix, aExpectedStruct) ==
    [ s   |-> ThrowIf(prefix.s, prefix.typeId # aExpectedStruct, "expected"),
      lst |-> IF Good(prefix.s)
              THEN [ stops  |-> <<prefix.s.pos + prefix.mByteOffset>>,
                     parsed |-> <<FALSE>>, cps |-> <<>> ]
              ELSE EmptyFutureDataLst ]

\* auto_read_prefixes(aExpectedStruct, localFutureLst) -> [s, lst]: a standard
\* prefix of the expected Structure, whose byte offset declares the end of
\* the region that starts behind the prefix
auto_read_prefixes(d, s, strs, aExpectedStruct) ==
    prefixesRead(read_type_prefix(d, s, strs), aExpectedStruct)

\* StructBusEntry::read behind its prefixes
StructBusEntry_body(d, pre) ==
    LET s1 == readPreamble(d, pre.s, TRUE).s
        s2 == readEnum32(d, s1, Colors)     \* color
        s3 == read(d, s2, 16)               \* startX, startY, endX, endY
    IN  readRestOfStructure(d, pre.lst, s3)

\* StructBusEntry::read -> [s, lst]
StructBusEntry_read(d, s, strs, aExpectedStruct) ==
    StructBusEntry_body(d, auto_read_prefixes(d, s, strs, aExpectedStruct))

\* CommonBase::readPrefixPrimitive: kind, 0x00, kind repeated
readPrefixPrimitive(d, s) ==
    LET s1 == readEnum(d, s, 1, GeometryStructures)
        s2 == assumeData(d, s1, <<0>>)
        s3 == read(d, s2, 1)
    IN  ThrowIf(s3, Uint8At(d, s.pos) # Uint8At(d, s2.pos), "primitive")

\* the loop over lenPrimitives of read_raw: k primitives left
RECURSIVE readPrimitives(_, _, _, _)
readPrimitives(d, s, k, len) ==
    IF k = 0 \/ ~Good(s) THEN s
    ELSE readPrimitives(d, readGeometryPrimitive(d, readPrefixPrimitive(d, s), len), k - 1, len)

\* the end of read_raw: the stream in state s behind the tail, the checkpoint
read_raw_end(lst, s) == [s |-> s, lst |-> checkpoint(lst, s)]

\* the tail of read_raw always taken for the four int16 coordinates
read_raw_tailAlwaysCoordinates(d, lst, s) == read_raw_end(lst, read(d, s, 8))

\* the tail of read_raw behind the primitives: four int16 when the next
\* checkpoint is 8 bytes ahead, else whatever lies before the next future data
read_raw_tail(d, lst, s) ==
    read_raw_end(lst, IF getNextCheckpointPos(lst, s) # -1
                         /\ getNextCheckpointPos(lst, s) - s.pos = 8
                      THEN read(d, s, 8)
                      ELSE readUntilNextFutureData(d, lst, s))

\* read_raw from color on
read_raw_body(d, lst, s, len) ==
    LET s1 == readEnum32(d, s, Colors)
        s2 == read(d, s1, 2)
    IN  read_raw_tail(d, lst, readPrimitives(d, s2, Uint16Read(d, s1, s2, 0), len))

\* StructSthInPages0::read_raw -> [s, lst]
StructSthInPages0_read_raw(d, s, lst, len) ==
    LET s1 == readStringLenZeroTerm(d, s)       \* name
        s2 == readStringLenZeroTerm(d, s1)      \* someStr0
    IN  read_raw_body(d, checkpoint(lst, s2), s2, len)

\* localFutureLst.sanitizeCheckpoints() on what the body left
sanitized(raw) == [s |-> sanitizeCheckpoints(raw.lst, raw.s), lst |-> raw.lst]

\* the read without its sanitizeCheckpoints()
StructSthInPages0_readUnsanitized(d, s, strs, aExpectedStruct, len) ==
    StructSthInPages0_read_raw(
        d, readPreamble(d, auto_read_prefixes(d, s, strs, aExpectedStruct).s, TRUE).s,
        checkpoint(auto_read_prefixes(d, s, strs, aExpectedStruct).lst,
                   readPreamble(d, auto_read_prefixes(d, s, strs, aExpectedStruct).s, TRUE).s),
        len)

\* StructSthInPages0::read -> [s, lst]
StructSthInPages0_read(d, s, strs, aExpectedStruct, len) ==
    sanitized(StructSthInPages0_read_raw(
        d, readPreamble(d, auto_read_prefixes(d, s, strs, aExpectedStruct).s, TRUE).s,
        checkpoint(auto_read_prefixes(d, s, strs, aExpectedStruct).lst,
                   readPreamble(d, auto_read_prefixes(d, s, strs, aExpectedStruct).s, TRUE).s),
        len))

\* StructGraphicInst::read(localFutureLst): the body of a Global, an opaque
\* record behind which a checkpoint is taken
StructGraphicInst_read(d, pre, len) ==
    [ s |-> parseStructure(d, pre.s, len), lst |-> checkpoint(pre.lst, parseStructure(d, pre.s, len)) ]

\* StructGlobal::read -> [s, lst]
StructGlobal_read(d, s, strs, aExpectedStruct, len) ==
    sanitized(StructGraphicInst_read(d, auto_read_prefixes(d, s, strs, aExpectedStruct), len))

(***************************************************************************)
(* mByteOffset as a member of the Parser.  tr is the Parser while a stream *)
(* is read: [s, mByteOffset, setAt, structure, at, tests].  setAt is the   *)
(* offset of the standard prefix that assigned mByteOffset, -1 when none   *)
(* did since the stream was opened; structure and at are the tag the       *)
(* caller passes to parseStructure and the offset of its record; tests     *)
(* holds <<at, mByteOffset, setAt>> for every test readWireScalar made.    *)
(***************************************************************************)
\* Structure::WireScalar
WireScalarTag == 20

\* the Parser on a stream just opened; mByteOffset is not assigned by the
\* constructor nor by openFile, it holds whatever it held before
Opened(leftOver) ==
    [s |-> Start, mByteOffset |-> leftOver, setAt |-> -1, structure |-> -1, at |-> -1,
     tests |-> <<>>]

\* what calling a prefix reader leaves: the stream, the tag returned, and
\* mByteOffset assigned when the u32 at offset `std` + 1 was read
prefixed(d, tr, prefix, std) ==
    [ s           |-> prefix.s,
      mByteOffset |-> IF Good(read(d, ToStructure(d, std), 4))
                      THEN Uint32At(d, std.pos + 1) ELSE tr.mByteOffset,
      setAt       |-> IF Good(read(d, ToStructure(d, std), 4)) THEN std.pos ELSE tr.setAt,
      structure   |-> prefix.typeId,
      at          |-> std.pos,
      tests       |-> tr.tests ]

\* read_type_prefix that leaves mByteOffset as it was
trackedPrefixKeepingOffset(d, tr, strs) ==
    [tr EXCEPT !.s = read_type_prefix(d, tr.s, strs).s,
               !.structure = read_type_prefix(d, tr.s, strs).typeId, !.at = tr.s.pos]

\* Structure structure = read_type_prefix()
trackedPrefix(d, tr, strs) == prefixed(d, tr, read_type_prefix(d, tr.s, strs), tr.s)

\* Structure structure = read_type_prefix_long(): the standard prefix is
\* behind the tag, the 2 bytes and the 6 zero bytes
trackedPrefixLong(d, tr, strs) ==
    prefixed(d, tr, read_type_prefix_long(d, tr.s, strs),
             assumeData(d, read(d, ToStructure(d, tr.s), 2), <<0, 0, 0, 0, 0, 0>>))

\* readPreamble() between the prefix and parseStructure
trackedPreamble(d, tr) == [tr EXCEPT !.s = readPreamble(d, tr.s, TRUE).s]

\* the test of mByteOffset noted once the fields before it are read
tested(tr, s) ==
    [tr EXCEPT !.s = s,
               !.tests = IF Good(s) THEN Append(@, <<tr.at, tr.mByteOffset, tr.setAt>>) ELSE @]

\* the end of readWireScalar: 2 bytes, wireLineWidth, wireLineStyle
trackedWireScalarTail(d, tr) ==
    [tr EXCEPT !.s = readEnum32(d, readEnum32(d, read(d, tr.s, 2), LineWidths), LineStyles)]

RECURSIVE trackedRecords(_, _, _, _, _)
RECURSIVE trackedStructure(_, _, _, _)

\* readWireScalar behind the test: tr.mByteOffset is what the test saw
trackedWireScalarMiddle(d, tr, strs, len) ==
    IF tr.mByteOffset = 61 THEN [tr EXCEPT !.s = read(d, tr.s, 2)]
    ELSE IF tr.mByteOffset > 61
    THEN trackedRecords(d, [tr EXCEPT !.s = read(d, tr.s, 2)], strs,
                        Uint16Read(d, tr.s, read(d, tr.s, 2), 0), len)
    ELSE tr

\* Parser::readWireScalar with mByteOffset read from the Parser
trackedWireScalar(d, tr, strs, len) ==
    trackedWireScalarTail(d, trackedWireScalarMiddle(d,
        tested(tr, read(d, read(d, readEnum32(d, read(d, read(d, tr.s, 4), 4), Colors), 16), 1)),
        strs, len))

\* parseStructure(tr.structure): the WireScalar case, the other records opaque
trackedStructure(d, tr, strs, len) ==
    IF ~Good(tr.s) THEN tr
    ELSE IF tr.structure = WireScalarTag THEN trackedWireScalar(d, tr, strs, len)
    ELSE [tr EXCEPT !.s = parseStructure(d, tr.s, len)]

\* read_type_prefix(); readPreamble(); parseStructure(structure), k times
trackedRecords(d, tr, strs, k, len) ==
    IF k = 0 \/ ~Good(tr.s) THEN tr
    ELSE trackedRecords(d, trackedStructure(d, trackedPreamble(d, trackedPrefix(d, tr, strs)),
                                            strs, len),
                        strs, k - 1, len)

\* the first turn of the len3 loop of parsePage: 47 bytes, ToStructure(0x0d)
trackedVeryLong(d, tr) ==
    IF ~Good(tr.s) THEN tr
    ELSE [tr EXCEPT !.s = read(d, tr.s, 47), !.structure = 13, !.at = tr.s.pos]

\* the len3 loop of parsePage
trackedLen3(d, tr, strs, len3, len) ==
    IF len3 = 0 \/ ~Good(tr.s) THEN tr
    ELSE trackedRecords(d, trackedStructure(d, trackedPreamble(d, trackedVeryLong(d, tr)),
                                            strs, len),
                        strs, len3 - 1, len)

\* a u16 count read, and the Parser behind it
counted(d, tr) == [tr EXCEPT !.s = read(d, tr.s, 2)]
countOf(d, tr) == Uint16Read(d, tr.s, read(d, tr.s, 2), 0)

\* the len2 loop and the len3 loop of parsePage, each behind its count
len2Loop(d, tr, strs, len) == trackedRecords(d, counted(d, tr), strs, countOf(d, tr), len)
len3Loop(d, tr, strs, len) == trackedLen3(d, counted(d, tr), strs, countOf(d, tr), len)

\* Parser::parsePage from len2 to the end of the len3 loop
pageRecords(d, tr, strs, len) == len3Loop(d, len2Loop(d, tr, strs, len), strs, len)

\* the end of readGraphicBoxInst: read_type_prefix_long(); readPreamble();
\* parseStructure(structure)
graphicBoxRecord(d, tr, strs, len) ==
    trackedStructure(d, trackedPreamble(d, trackedPrefixLong(d, tr, strs)), strs, len)

(***************************************************************************)
(* The readers of geometry contexts besides parseGeometrySpecification:    *)
(* Parser::readSthInPages0, readERCSymbol and readSymbolVector.  A loop    *)
(* over primitives returns [s, starts], starts being the offsets at which  *)
(* the kind bytes of the primitives it read begin.                         *)
(***************************************************************************)
\* the loop of discard_until_preamble: buffer holds the last four bytes read;
\* when it is the magic the four bytes are put back
RECURSIVE discardLoop(_, _, _)
discardLoop(d, s, buffer) ==
    IF ~Good(s) THEN s
    ELSE IF buffer = <<255, 228, 92, 57>> THEN [s EXCEPT !.pos = @ - 4]
    ELSE discardLoop(d, read(d, s, 1),
                     <<buffer[2], buffer[3], buffer[4], IF s.pos < Len(d) THEN d[s.pos + 1] ELSE 0>>)

\* the search given up after one window of four bytes
discard_until_preambleOneWindow(d, s) ==
    IF Good(read(d, s, 4)) /\ SubSeq(d, s.pos + 1, s.pos + 4) = <<255, 228, 92, 57>> THEN s
    ELSE read(d, s, 4)

\* Parser::discard_until_preamble
discard_until_preamble(d, s) == discardLoop(d, s, <<0, 0, 0, 0>>)

\* one primitive behind its two kind bytes: readGeometryStructure(kind, nullptr)
kindedPrimitive(d, s, len) ==
    readGeometryStructure(d, geometryKinds(d, s), kindOf(d, s), len, DefaultGeometrySpecification).s

\* the loop of readSthInPages0 and of readERCSymbol: k primitives left
RECURSIVE readKindedPrimitives(_, _, _, _, _)
readKindedPrimitives(d, s, k, len, starts) ==
    IF k = 0 \/ ~Good(s) THEN [s |-> s, starts |-> starts]
    ELSE readKindedPrimitives(d, kindedPrimitive(d, s, len), k - 1, len, Append(starts, s.pos))

\* a u16 count at the position of s, then that many primitives
countedPrimitives(d, s, len) ==
    readKindedPrimitives(d, read(d, s, 2), Uint16Read(d, s, read(d, s, 2), 0), len, <<>>)

\* Parser::readSthInPages0 -> [s, starts]
readSthInPages0(d, s, len) == countedPrimitives(d, read(d, read(d, s, 6), 4), len)

\* readSymbolBBox: x1, y1, x2, y2 and 4 bytes
readSymbolBBox(d, s) == read(d, read(d, s, 8), 4)

\* the end of readERCSymbol: readPreamble and readSymbolBBox
symbolBBoxBehind(d, prims) ==
    [s |-> readSymbolBBox(d, readPreamble(d, prims.s, TRUE).s), starts |-> prims.starts]

\* Parser::readERCSymbol -> [s, starts]
readERCSymbol(d, s, len) ==
    symbolBBoxBehind(d, countedPrimitives(d, read(d, read(d, readStringLenZeroTerm(d, s), 3), 4),
                                          len))

\* the lambda of readSymbolVector with its zero byte left out
readSmallTypePrefixOfTwoBytes(d, s) == geometryKinds(d, s)

\* the lambda readSmallTypePrefix of readSymbolVector: the kind, a zero byte,
\* the kind again
readSmallTypePrefix(d, s) ==
    assumeData(d, assumeData(d, readEnum(d, s, 1, GeometryStructures), <<0>>),
               <<kindOf(d, s)>>)

\* one primitive of readSymbolVector in the stream in state s
vectorPrimitive(d, s, len) == readGeometryPrimitive(d, readSmallTypePrefix(d, s), len)

\* the loop over repetition of readSymbolVector: k primitives left
RECURSIVE readVectorPrimitives(_, _, _, _, _, _)
vectorIteration(d, s, k, len, starts) ==
    readVectorPrimitives(d, vectorPrimitive(d, s, len), k - 1, len, FALSE, Append(starts, s.pos))

readVectorPrimitives(d, s, k, len, first, starts) ==
    IF k = 0 \/ ~Good(s) THEN [s |-> s, starts |-> starts]
    ELSE vectorIteration(d, IF first THEN s ELSE readPreamble(d, s, TRUE).s, k, len, starts)

\* the end of readSymbolVector: readPreamble, name, 12 asserted bytes
symbolVectorEnd(d, prims) ==
    [ s |-> assumeData(d, readStringLenZeroTerm(d, readPreamble(d, prims.s, TRUE).s),
                       <<0, 0, 0, 0, 50, 0, 50, 0, 0, 0, 2, 0>>),
      starts |-> prims.starts ]

\* readSymbolVector behind locX and locY
symbolVectorBody(d, s, len) ==
    symbolVectorEnd(d, readVectorPrimitives(d, read(d, s, 2), Uint16Read(d, s, read(d, s, 2), 0),
                                            len, TRUE, <<>>))

\* Parser::readSymbolVector -> [s, starts]
readSymbolVector(d, s, len) ==
    symbolVectorBody(d, read(d, readPreamble(d, discard_until_preamble(d, s), TRUE).s, 4), len)

(***************************************************************************)
(* Streams the readers are run on                                          *)
(***************************************************************************)
Zeros(n) == [i \in 1..n |-> 0]
LE16(v)  == <<v % 256, v \div 256>>
LE32(v)  == <<v % 256, (v \div 256) % 256, (v \div 65536) % 256, v \div 16777216>>
Int16Bytes(v) == IF v < 0 THEN LE16(v + 65536) ELSE LE16(v)
ZStr(chars)   == chars \o <<0>>

RECURSIVE Repeat(_, _)
Repeat(bytes, n) == IF n <= 0 THEN <<>> ELSE bytes \o Repeat(bytes, n - 1)

\* (first tag, repeated tag): equal, different, and with an unknown one (0xEE)
TagPairs == { <<16, 16>>, <<31, 31>>, <<16, 31>>, <<238, 16>>, <<16, 238>> }

ShortPrefixBytes(tag, rep, size, name, value) ==
    <<tag>> \o LE32(11) \o Zeros(4) \o <<rep>> \o Int16Bytes(size)
    \o Repeat(LE32(name) \o LE32(value), size)

PrefixBytes(tag, zeros, short) == <<tag>> \o LE32(61) \o zeros \o short

LongPrefixBytes(tag, zeros, std) == <<tag, 1, 2>> \o zeros \o std

PreambleBytes(optionalLen) == <<255, 228, 92, 57>> \o LE32(optionalLen) \o Repeat(<<5>>, optionalLen)

ShortInputs ==
    { ShortPrefixBytes(t[1], t[2], -1, 0, 0) : t \in TagPairs }
    \cup { ShortPrefixBytes(t[1], t[2], 0, 0, 0) : t \in TagPairs }
    \cup { ShortPrefixBytes(x[1][1], x[1][2], x[2], x[3], x[4]) :
             x \in TagPairs \X (1..MaxPairs) \X (0..MaxIdx) \X (0..MaxIdx) }

\* short prefixes placed inside the other forms
InnerShorts ==
    { ShortPrefixBytes(t[1], t[2], x[1], x[2], 0) :
        t \in {<<16, 16>>, <<16, 31>>, <<31, 31>>}, x \in {<<-1, 0>>, <<1, 0>>, <<1, 1>>} }

StandardInputs ==
    { PrefixBytes(x[1], x[2], x[3]) :
        x \in {16, 31, 238} \X {Zeros(4), <<0, 0, 1, 0>>} \X InnerShorts }

LongInputs ==
    { LongPrefixBytes(x[1], x[2], PrefixBytes(x[3], Zeros(4), x[4])) :
        x \in {16, 31} \X {Zeros(6), <<0, 0, 0, 0, 0, 9>>} \X {16, 31} \X InnerShorts }

\* packed: fonts 0, 1 and 2, a reserved bit set (with font 0 and with font 3),
\* rotations 1 and 3
SymbolDisplayPropInputs ==
    { LE32(x[1]) \o Int16Bytes(-3) \o Int16Bytes(4) \o LE16(x[2]) \o <<x[3]>> \o <<1, 2>> \o <<x[4]>> :
        x \in (0..MaxIdx) \X {0, 1, 2, 256, 259, 16385, 49152} \X {0, 48, 238} \X {0, 1} }

NetBytes(rep, idx, optionalLen) ==
    ShortPrefixBytes(16, rep, 1, idx, 0) \o PreambleBytes(optionalLen) \o LE32(77) \o ZStr(<<78>>)

HierarchyInputs ==
    { Zeros(9) \o ZStr(<<83>>) \o Zeros(9) \o LE16(x[1]) \o Repeat(NetBytes(x[2], x[3], x[4]), x[5])
      \o x[6] :
        x \in (0..MaxItems) \X {16, 31} \X {0, 1} \X {0, 1} \X (0..MaxItems) \X {<<>>, <<7>>} }

TypesInputs ==
    { Repeat(ZStr(<<84>>) \o LE16(9), x[1]) \o x[2] :
        x \in (0..MaxItems)
              \X { <<>>, ZStr(<<85>>) \o LE16(33), ZStr(<<85>>) \o LE16(5), <<85>>,
                   ZStr(<<85>>) \o <<9>> } }

ViewsItemBytes == ZStr(<<86>>) \o LE16(9) \o Zeros(14) \o LE16(472) \o Int16Bytes(-60) \o Zeros(2)

ViewsDirectoryInputs ==
    { LE32(1000) \o LE16(x[1]) \o Repeat(ViewsItemBytes, x[2]) \o x[3] :
        x \in (0..MaxItems) \X (0..MaxItems) \X {<<>>, <<7>>} }

PackageInputs ==
    { LE16(x[1]) \o Repeat(Repeat(<<1>>, x[2]) \o LE16(x[3]) \o Repeat(<<2>>, x[2] * x[3]), x[1])
      \o Repeat(<<3>>, x[2]) \o x[4] :
        x \in (0..MaxItems) \X (1..MaxRecordLen) \X (0..1) \X {<<>>, <<7>>} }

PageHeaderBytes ==
    Zeros(21) \o PreambleBytes(0) \o ZStr(<<80>>) \o ZStr(<<65>>)
    \o Zeros(4 + 4 + 16) \o Zeros(4 + 4 + 4 + 2) \o Zeros(2 + 2 + 2 + 4 + 4)
    \o Zeros(48 + 4 + 4 + 4 + 4 + 4 + 4) \o Zeros(8 * 4)

PageRecordBytes(n) == PrefixBytes(16, Zeros(4), ShortPrefixBytes(16, 16, -1, 0, 0))
                      \o PreambleBytes(0) \o Repeat(<<4>>, n)

PageInputs ==
    { PageHeaderBytes \o LE16(x[1]) \o Zeros(8 * x[1]) \o LE16(x[1]) \o Zeros(32 * x[1])
      \o Zeros(2) \o LE16(x[1]) \o Repeat(ZStr(<<78>>) \o Zeros(4), x[1])
      \o LE16(x[2]) \o Repeat(PageRecordBytes(x[3]), x[2])
      \o LE16(x[2]) \o (IF x[2] = 0 THEN <<>>
                        ELSE Zeros(47) \o PreambleBytes(0) \o Repeat(<<4>>, x[3])
                             \o Repeat(PageRecordBytes(x[3]), x[2] - 1))
      \o Zeros(10) \o LE16(x[2]) \o Repeat(PageRecordBytes(x[3]), x[2]) \o x[4] :
        x \in (0..1) \X (0..MaxItems) \X (1..MaxRecordLen) \X {<<>>, <<7>>} }

\* a stream cut short by one byte
Truncated(S) == { SubSeq(b, 1, Len(b) - 1) : b \in { x \in S : Len(x) > 0 } }

\* Properties: ref, the three zero bytes, viewNumber, one or two strings, 29 bytes
PropertiesInputs ==
    { ZStr(<<82>>) \o x[1] \o LE16(x[2]) \o x[3] \o Zeros(29) :
        x \in {Zeros(3), <<0, 1, 0>>} \X (0..3)
              \X {ZStr(<<78>>), ZStr(<<67>>) \o ZStr(<<78>>)} }

\* TrailingProperties: viewNumber and up to two strings
TrailingPropertiesInputs ==
    { LE16(x[1]) \o x[2] :
        x \in (0..3) \X {<<>>, ZStr(<<78>>), ZStr(<<78>>) \o ZStr(<<67>>), ZStr(<<78>>) \o <<67>>} }

\* PinIdxMapping: unitRef, refDes, pinCount, then (name, separator) entries
PinEntries ==
    { <<>>, ZStr(<<49>>) \o <<127>>, ZStr(<<49>>) \o <<66>>,
      ZStr(<<49>>) \o <<127>> \o ZStr(<<50, 51>>) \o <<170>>,
      ZStr(<<49>>) \o <<255>> \o ZStr(<<50, 51>>) \o <<66>>,
      ZStr(<<49>>) \o <<0>> \o ZStr(<<50, 51>>) \o <<170>>,
      ZStr(<<49>>) \o <<127>> \o ZStr(<<50, 51>>) \o <<170>> \o ZStr(<<>>) \o <<255>>,
      ZStr(<<49>>) \o <<127>> \o <<50, 51>> }

PinIdxMappingInputs ==
    { ZStr(<<85, 49>>) \o ZStr(<<85>>) \o LE16(x[1]) \o x[2] : x \in (0..(MaxItems + 1)) \X PinEntries }

\* a standard prefix with the given byte offset and no name value pairs
StdPrefixBytes(tag, offset) ==
    <<tag>> \o LE32(offset) \o Zeros(4) \o ShortPrefixBytes(tag, tag, -1, 0, 0)

\* a nested record: prefix, preamble and n bytes
NestedRecordBytes(n) == StdPrefixBytes(31, 40) \o PreambleBytes(0) \o Repeat(<<6>>, n)

\* WireScalar records behind their prefix and preamble, for byte offsets
\* below, at and above 0x3d
WireScalarInputs ==
    { StdPrefixBytes(16, x[1]) \o PreambleBytes(0) \o LE32(7) \o Zeros(4) \o LE32(x[2])
      \o Zeros(16) \o <<9>> \o x[3] \o <<1, 2>> \o LE32(1) \o LE32(2) :
        x \in {60, 61, 62} \X {4, 49}
              \X ({<<>>, <<8, 8>>, LE16(0), LE16(1) \o NestedRecordBytes(1),
                   LE16(2) \o NestedRecordBytes(1) \o NestedRecordBytes(1)}
                  \cup {LE16(1) \o NestedRecordBytes(MaxRecordLen)}) }

\* the primitives <<kind, repeated kind, body byte>> of a geometry list laid
\* out as the given version lays them out
RECURSIVE GeometryListBytes(_, _, _)
GeometryListBytes(prims, version, first) ==
    IF prims = <<>> THEN <<>>
    ELSE (IF first \/ version = "A" THEN <<>>
          ELSE IF version = "B" THEN StdPrefixBytes(16, 40) \o PreambleBytes(0)
          ELSE PreambleBytes(0))
         \o Head(prims)
         \o (IF version = "A" THEN Zeros(8) ELSE <<>>)
         \o GeometryListBytes(Tail(prims), version, FALSE)

GeometryLists ==
    { <<>>, << <<41, 41, 1>> >>, << <<41, 41, 1>>, <<40, 40, 2>> >>,
      << <<41, 41, 1>>, <<41, 41, 2>> >>, << <<41, 40, 1>> >>, << <<99, 99, 1>> >>,
      << <<40, 40, 1>>, <<41, 41, 2>>, <<40, 40, 3>> >> }

GeometryInputs ==
    { ZStr(x[1]) \o <<0, 0, 0, 48, 0, 0, 0>> \o LE16(Len(x[2])) \o GeometryListBytes(x[2], x[3], TRUE) :
        x \in {<<71>>} \X GeometryLists \X FileFormatVersions }
    \cup { ZStr(<<>>) \o <<0, 0, 0, 48, 0, 0, 0>> \o LE16(1) \o <<42, 42, 1>>,
           ZStr(<<71>>) \o <<0, 0, 0, 49, 0, 0, 0>> \o LE16(0) }

\* geometry specifications behind the preamble the GeoDefinition case reads
GeoDefinitionInputs ==
    { PreambleBytes(0) \o ZStr(<<71>>) \o <<0, 0, 0, 48, 0, 0, 0>> \o LE16(Len(x[1]))
      \o GeometryListBytes(x[1], x[2], TRUE) :
        x \in { << <<41, 41, 1>> >>, << <<41, 41, 1>>, <<40, 40, 2>> >> } \X FileFormatVersions }

\* BusEntry: prefix, preamble, color and four coordinates, trailing bytes;
\* the region the prefix declares ends before, at or behind the body
BusEntryInputs ==
    { StdPrefixBytes(16, x[1]) \o PreambleBytes(0) \o LE32(x[2]) \o Zeros(16) \o x[3] :
        x \in {8, 20, 28, 30} \X {3, 49} \X {<<>>, <<1, 2>>} }

\* SthInPages0: prefix, preamble, two names, color, primitives, a tail
SthInPages0Inputs ==
    { StdPrefixBytes(16, x[1]) \o PreambleBytes(0) \o ZStr(<<78>>) \o ZStr(<<83>>) \o LE32(3)
      \o LE16(x[2]) \o Repeat(<<41, 0, 41, 7>>, x[2]) \o x[3] :
        x \in {8, 12, 15, 18, 20, 22, 26, 30} \X {0, 1} \X {<<>>, Zeros(2), Zeros(8)} }
    \cup { StdPrefixBytes(16, 22) \o PreambleBytes(0) \o ZStr(<<78>>) \o ZStr(<<83>>) \o LE32(3)
           \o LE16(1) \o p : p \in {<<41, 1, 41, 7>>, <<41, 0, 40, 7>>} }

\* Global: prefix and body
GlobalInputs == { StdPrefixBytes(16, off) \o <<6, 6>> : off \in 0..3 }

\* a preamble and what follows it; a wrong magic; optional bytes cut short
PreambleInputs ==
    { PreambleBytes(x[1]) \o x[2] : x \in (0..2) \X {<<>>, <<9>>} }
    \cup { <<255, 228, 92, 58>> \o LE32(0), <<57, 92, 228, 255>> \o LE32(1) \o <<5>>,
           <<255, 228, 92, 57>> \o LE32(2) \o <<5>>, <<255, 228, 92, 57>>, <<255, 228, 92>> }

\* short prefixes with other values of byteLength, unknown bytes that are not
\* zero and bytes behind the prefix
LockedShortInputs ==
    { <<16>> \o LE32(x[1]) \o <<1, 2, 3, 4>> \o <<16>> \o Int16Bytes(x[2])
      \o Repeat(LE32(1) \o LE32(0), x[2]) \o x[3] :
        x \in {0, 7, 11, 30} \X {-2, -1, 0, 1} \X {<<>>, Zeros(8)} }

\* primitives behind two kind bytes, behind kind bytes that differ, behind
\* three byte prefixes
KindedLists ==
    { <<>>, <<41, 41, 7>>, <<41, 41, 7, 40, 40, 7>>, <<41, 40, 7>>, <<41, 0, 41, 7>>,
      <<41, 41, 7, 42, 41, 7>>, <<99, 99, 7>> }

KindedCount(prims) == IF prims = <<>> THEN 0 ELSE IF Len(prims) = 6 THEN 2 ELSE 1

\* Parser::readSthInPages0: 10 bytes, the count, the primitives
ParserSthInPages0Inputs ==
    { Zeros(10) \o LE16(KindedCount(p)) \o p : p \in KindedLists }

\* readERCSymbol: name, 7 bytes, the count, the primitives, preamble, bounding box
ERCSymbolInputs ==
    { ZStr(<<69>>) \o Zeros(7) \o LE16(KindedCount(p)) \o p \o PreambleBytes(0) \o Zeros(12) :
        p \in KindedLists }

\* the primitives of a SymbolVector: three byte prefixes, a middle byte that
\* is not zero, kind bytes that differ, two byte prefixes
VectorLists ==
    { <<>>, <<41, 0, 41, 7>>, <<41, 0, 41, 7>> \o PreambleBytes(0) \o <<40, 0, 40, 7>>,
      <<41, 1, 41, 7>>, <<41, 0, 40, 7>>, <<41, 41, 7>> }

VectorCount(prims) == IF prims = <<>> THEN 0 ELSE IF Len(prims) > 4 THEN 2 ELSE 1

\* readSymbolVector: bytes before the preamble, preamble, locX, locY, the
\* count, the primitives, preamble, name, the 12 closing bytes
SymbolVectorInputs ==
    { x[1] \o PreambleBytes(0) \o Zeros(4) \o LE16(VectorCount(x[2])) \o x[2] \o PreambleBytes(0)
      \o ZStr(<<86>>) \o <<0, 0, 0, 0, 50, 0, 50, 0, 0, 0, 2, 0>> :
        x \in {<<>>, <<1, 2>>, <<255, 228, 92>>} \X VectorLists }

\* streams with the magic at the start, further on, twice, begun and begun
\* again, cut short, absent
DiscardInputs ==
    { <<255, 228, 92, 57>>, <<1, 255, 228, 92, 57, 2>>, <<255, 255, 228, 92, 57>>,
      <<255, 228, 92, 255, 228, 92, 57, 0, 0, 0, 0>>, <<0, 0, 0, 255, 228, 92, 57, 255, 228, 92, 57>>,
      <<255, 228, 92>>, <<1, 2, 3, 4, 5>>, <<>>, <<0, 0, 0, 0>>, <<57, 92, 228, 255>>,
      <<1, 2, 255, 228, 92, 57>> \o LE32(1) \o <<5>> }

\* a WireScalar behind its preamble: the fields, the bytes of the branch
\* taken on mByteOffset, the tail
WireBodyBytes(middle) ==
    LE32(7) \o Zeros(4) \o LE32(4) \o Zeros(16) \o <<9>> \o middle \o <<1, 2>> \o LE32(1) \o LE32(2)

\* a WireScalar record: standard prefix with the given byte offset, preamble, body
WireRecordBytes(offset, middle) ==
    StdPrefixBytes(20, offset) \o PreambleBytes(0) \o WireBodyBytes(middle)

\* the 47 bytes of the first turn of the len3 loop, preamble, a record of 1 byte
VeryLongBytes == Zeros(47) \o PreambleBytes(0) \o <<6>>

\* the len2 and len3 records of a page: WireScalars next to each other, nested
\* in each other, behind other records and behind the 47 byte turn; a
\* WireScalar whose bytes do not fit its byte offset; a prefix cut short
PageRecordInputs ==
    { LE16(2) \o WireRecordBytes(62, LE16(1) \o WireRecordBytes(60, <<>>))
        \o WireRecordBytes(61, <<8, 8>>) \o LE16(0),
      LE16(1) \o NestedRecordBytes(1) \o LE16(2) \o VeryLongBytes \o WireRecordBytes(60, <<>>),
      LE16(0) \o LE16(1) \o VeryLongBytes,
      LE16(1) \o WireRecordBytes(62, LE16(1) \o NestedRecordBytes(1)) \o LE16(0),
      LE16(1) \o WireRecordBytes(62, LE16(2) \o WireRecordBytes(61, <<8, 8>>) \o NestedRecordBytes(1))
        \o LE16(2) \o VeryLongBytes \o WireRecordBytes(61, <<8, 8>>),
      LE16(2) \o WireRecordBytes(60, <<8, 8>>) \o WireRecordBytes(60, <<>>) \o LE16(0),
      LE16(1) \o <<20, 62>>,
      LE16(0) \o LE16(0) }

\* the record at the end of a GraphicBoxInst: long prefix, preamble, WireScalar
GraphicBoxInputs ==
    { LongPrefixBytes(20, Zeros(6), StdPrefixBytes(20, x[1])) \o PreambleBytes(0) \o WireBodyBytes(x[2]) :
        x \in { <<60, <<>> >>, <<61, <<8, 8>> >>, <<62, LE16(1) \o WireRecordBytes(60, <<>>)>> } }
    \cup { LongPrefixBytes(31, Zeros(6), StdPrefixBytes(31, 40)) \o PreambleBytes(0) \o <<6>>,
           <<20, 1, 2>> \o Zeros(6) \o <<20, 62>> }

ByteOffsetStreams == PageRecordInputs \cup GraphicBoxInputs

\* what mByteOffset holds when a stream is opened: nothing assigned it, or
\* the prefix read last in the stream before
LeftOvers == {0, 61, 62}

GeometryContextStreams ==
    ParserSthInPages0Inputs \cup ERCSymbolInputs \cup SymbolVectorInputs \cup DiscardInputs

StreamInputs ==
    ShortInputs \cup StandardInputs \cup LongInputs \cup SymbolDisplayPropInputs
    \cup HierarchyInputs \cup TypesInputs \cup ViewsDirectoryInputs \cup PackageInputs
    \cup PageInputs \cup PropertiesInputs \cup TrailingPropertiesInputs
    \cup PinIdxMappingInputs \cup WireScalarInputs
    \cup GeometryInputs \cup GeoDefinitionInputs
    \cup BusEntryInputs \cup SthInPages0Inputs \cup GlobalInputs \cup PreambleInputs
    \cup LockedShortInputs \cup GeometryContextStreams \cup ByteOffsetStreams
    \cup Truncated(InnerShorts \cup TypesInputs \cup ViewsDirectoryInputs)
    \cup { b \o <<7>> : b \in InnerShorts }

\* the streams the readers of records are run on: those a record of their
\* kind begins at, and the bare preambles
WireScalarStreams == WireScalarInputs \cup PreambleInputs
PageStreams == PageInputs \cup PreambleInputs
GeometryStreams == GeometryInputs \cup GeoDefinitionInputs \cup PreambleInputs
FutureDataStreams == BusEntryInputs \cup SthInPages0Inputs \cup GlobalInputs \cup PreambleInputs

StrLsts == { SubSeq(<<"a", "b", "c", "d", "e">>, 1, n) : n \in 0..(MaxIdx - 1) }

(***************************************************************************)
(* Specification of the byte level readers: one reader is run on the open  *)
(* stream from offset 0.  result records what the reader saw:              *)
(*   err     the exception it threw ("none" when it returned)              *)
(*   tags    the (tag, repeated tag) pairs of the prefixes, outermost first*)
(*   idx     the string table indices it looked up, in order               *)
(*   looked  the strings the lookups that were made returned               *)
(*   out     what it returned                                              *)
(***************************************************************************)
NoResult == [err |-> "none", tags |-> <<>>, idx |-> <<>>, looked |-> <<>>, out |-> <<>>]

Ran(name, s, res) ==
    /\ status = "ready"
    /\ reader' = name
    /\ status' = IF Good(s) THEN "ok" ELSE "failed"
    /\ pos' = s.pos
    /\ result' = [res EXCEPT !.err = s.err]
    /\ UNCHANGED <<data, strLst, textFonts, asmVars>>

\* the indices and strings of the pairs of a short prefix, flattened
Flat(pairs) == [i \in 1..(2 * Len(pairs)) |-> pairs[(i + 1) \div 2][2 - (i % 2)]]

shortSeen(r) ==
    [NoResult EXCEPT !.tags = << <<r.typeId, r.typeIdRep>> >>,
                     !.idx = Flat(r.pairs), !.looked = Flat(r.looked), !.out = <<r.typeId>>]

prefixSeen(r) ==
    [shortSeen(r.short) EXCEPT !.tags = << <<r.typeId, r.short.typeId>> >> \o @,
                               !.out = <<r.typeId, r.mByteOffset>>]

longSeen(r) ==
    [prefixSeen(r.std) EXCEPT !.tags = << <<r.typeId, r.std.typeId>> >> \o @,
                              !.out = <<r.typeId>>]

displayPropSeen(d, r) ==
    [NoResult EXCEPT !.idx = IF Len(d) >= 4 THEN <<r.nameIdx>> ELSE <<>>,
                     !.looked = IF Len(d) >= 4 /\ r.s.err # "strLst"
                                THEN <<r.strItem>> ELSE <<>>,
                     !.out = <<r.nameIdx, r.textFontIdx, r.rotation>>]

\* the reader returned r: r.s is the state it left, seen what it saw
Returned(name, r, seen) == Ran(name, r.s, seen)

Call_read_type_prefix_short ==
    Returned("read_type_prefix_short", read_type_prefix_short(data, Start, strLst),
             shortSeen(read_type_prefix_short(data, Start, strLst)))

Call_read_type_prefix ==
    Returned("read_type_prefix", read_type_prefix(data, Start, strLst),
             prefixSeen(read_type_prefix(data, Start, strLst)))

Call_read_type_prefix_long ==
    Returned("read_type_prefix_long", read_type_prefix_long(data, Start, strLst),
             longSeen(read_type_prefix_long(data, Start, strLst)))

Call_readPreamble ==
    \E readOptionalLen \in BOOLEAN :
        Returned("readPreamble", readPreamble(data, Start, readOptionalLen),
                 [NoResult EXCEPT !.out = <<readPreamble(data, Start, readOptionalLen).optionalLen,
                                           readOptionalLen>>])

Call_readSymbolDisplayProp ==
    Returned("readSymbolDisplayProp", readSymbolDisplayProp(data, Start, strLst, textFonts),
             displayPropSeen(data, readSymbolDisplayProp(data, Start, strLst, textFonts)))

Call_readHierarchy ==
    Ran("readHierarchy", readHierarchy(data, Start, strLst), NoResult)

Call_parseTypes ==
    Returned("parseTypes", parseTypes(data, Start, <<>>),
             [NoResult EXCEPT !.out = parseTypes(data, Start, <<>>).types])

Call_StreamViewsDirectory_read ==
    Ran("StreamViewsDirectory::read", StreamViewsDirectory_read(data, Start), NoResult)

Call_StreamPackage_read ==
    \E len \in {-1} \cup (1..MaxRecordLen) :
        Ran("StreamPackage::read", StreamPackage_read(data, Start, len), NoResult)

Call_parsePage ==
    /\ data \in PageStreams
    /\ \E len \in {-1} \cup (1..MaxRecordLen) :
        Ran("parsePage", parsePage(data, Start, strLst, len), NoResult)

\* what a reader of views saw: viewNumber, the offset after it, the two names
viewsSeen(r, first, second) ==
    [NoResult EXCEPT !.out = IF r.at = -1 THEN <<>>
                             ELSE <<r.viewNumber, r.at, first, second>>]

Call_readProperties ==
    Returned("readProperties", readProperties(data, Start),
             viewsSeen(readProperties(data, Start),
                       readProperties(data, Start).convertName,
                       readProperties(data, Start).name))

Call_TrailingProperties_read ==
    Returned("TrailingProperties::read", TrailingProperties_read(data, Start),
             viewsSeen(TrailingProperties_read(data, Start),
                       TrailingProperties_read(data, Start).normalName,
                       TrailingProperties_read(data, Start).convertName))

Call_readPinIdxMapping ==
    Returned("readPinIdxMapping", readPinIdxMapping(data, Start),
             [NoResult EXCEPT !.out = readPinIdxMapping(data, Start).pinMap])

\* what readWireScalar saw: the byte offset and the bytes its branches read
wireSeen(r) == [NoResult EXCEPT !.out = <<r.mByteOffset, r.from, r.to, r.nested>>]

Call_readWireScalar ==
    /\ data \in WireScalarStreams
    /\ \E len \in {-1} \cup (1..MaxRecordLen) :
        Returned("readWireScalar", WireScalarRecord(data, strLst, len),
                 wireSeen(WireScalarRecord(data, strLst, len)))

\* what parseGeometrySpecification returned and read, and the version it ran as
geometrySeen(r, version) == [NoResult EXCEPT !.out = <<r.obj, r.extents, version>>]

Call_parseGeometrySpecification ==
    /\ data \in GeometryStreams
    /\ \E version \in FileFormatVersions, len \in {-1, 1} :
        Returned("parseGeometrySpecification",
                 parseGeometrySpecification(data, Start, strLst, version, len),
                 geometrySeen(parseGeometrySpecification(data, Start, strLst, version, len),
                              version))

\* the contexts parseStructure is run in: the version of the Parser and the
\* byte offset of the last standard prefix
Contexts == { <<"A", 60>>, <<"B", 61>>, <<"C", 62>> }

\* the streams parseStructure is run on: those a structure of its switch
\* begins at
StructureInputs ==
    PropertiesInputs \cup PinIdxMappingInputs \cup WireScalarInputs
    \cup GeoDefinitionInputs \cup PreambleInputs

Call_parseStructure ==
    /\ data \in StructureInputs
    /\ \E structure \in Structures, c \in Contexts, len \in {-1, 1} :
        Returned("parseStructure",
                 parseStructure_switch(data, Start, structure,
                                       ParserContext(strLst, textFonts, c[1], c[2], len)),
                 [NoResult EXCEPT !.out =
                     << structure,
                        parseStructure_switch(data, Start, structure,
                            ParserContext(strLst, textFonts, c[1], c[2], len)).first,
                        parseStructure_switch(data, Start, structure,
                            ParserContext(strLst, textFonts, c[1], c[2], len)).called,
                        ParserContext(strLst, textFonts, c[1], c[2], len) >>])

\* the regions recorded and the checkpoints taken
futureSeen(r) == [NoResult EXCEPT !.out = <<r.lst.stops, r.lst.cps>>]

Call_StructBusEntry_read ==
    /\ data \in FutureDataStreams
    /\ \E aExpectedStruct \in {16, 31} :
        Returned("StructBusEntry::read", StructBusEntry_read(data, Start, strLst, aExpectedStruct),
                 futureSeen(StructBusEntry_read(data, Start, strLst, aExpectedStruct)))

Call_StructSthInPages0_read ==
    /\ data \in FutureDataStreams
    /\ \E aExpectedStruct \in {16, 31}, len \in {-1, 1} :
        Returned("StructSthInPages0::read",
                 StructSthInPages0_read(data, Start, strLst, aExpectedStruct, len),
                 futureSeen(StructSthInPages0_read(data, Start, strLst, aExpectedStruct, len)))

Call_StructGlobal_read ==
    /\ data \in FutureDataStreams
    /\ \E aExpectedStruct \in {16, 31}, len \in {-1, 1} :
        Returned("StructGlobal::read",
                 StructGlobal_read(data, Start, strLst, aExpectedStruct, len),
                 futureSeen(StructGlobal_read(data, Start, strLst, aExpectedStruct, len)))

\* the offsets of the kind bytes of the primitives a reader read, and len
primitivesSeen(r, len) == [NoResult EXCEPT !.out = r.starts, !.idx = <<len>>]

Call_readSthInPages0 ==
    /\ data \in GeometryContextStreams
    /\ \E len \in {-1, 1} :
        Returned("readSthInPages0", readSthInPages0(data, Start, len),
                 primitivesSeen(readSthInPages0(data, Start, len), len))

Call_readERCSymbol ==
    /\ data \in GeometryContextStreams
    /\ \E len \in {-1, 1} :
        Returned("readERCSymbol", readERCSymbol(data, Start, len),
                 primitivesSeen(readERCSymbol(data, Start, len), len))

Call_readSymbolVector ==
    /\ data \in GeometryContextStreams
    /\ \E len \in {-1, 1} :
        Returned("readSymbolVector", readSymbolVector(data, Start, len),
                 primitivesSeen(readSymbolVector(data, Start, len), len))

\* discard_until_preamble and the readPreamble that follows it
Call_discard_until_preamble ==
    /\ data \in GeometryContextStreams \cup PreambleInputs
    /\ Ran("discard_until_preamble", discard_until_preamble(data, Start),
           [NoResult EXCEPT !.out = <<readPreamble(data, discard_until_preamble(data, Start),
                                                   TRUE).s.err>>])

\* the tests of mByteOffset made, and what it held when the stream was opened
testsSeen(tr, leftOver) == [NoResult EXCEPT !.out = tr.tests, !.idx = <<leftOver>>]

Call_pageRecords ==
    /\ data \in ByteOffsetStreams
    /\ \E leftOver \in LeftOvers, len \in {-1, 1} :
        Returned("parsePage (len2, len3)", pageRecords(data, Opened(leftOver), strLst, len),
                 testsSeen(pageRecords(data, Opened(leftOver), strLst, len), leftOver))

Call_graphicBoxRecord ==
    /\ data \in ByteOffsetStreams
    /\ \E leftOver \in LeftOvers, len \in {-1, 1} :
        Returned("readGraphicBoxInst (record)",
                 graphicBoxRecord(data, Opened(leftOver), strLst, len),
                 testsSeen(graphicBoxRecord(data, Opened(leftOver), strLst, len), leftOver))

InitStream ==
    /\ aFile = <<>> /\ container = ReferenceContainer /\ pc = "stream"
    /\ tmpDirExists = FALSE /\ mFileType = "unset" /\ mRemainingFiles = {}
    /\ mCurrOpenFile = <<>> /\ dsOpen = TRUE /\ mFileCtr = 0 /\ mFileErrCtr = 0
    /\ mLibrary = DefaultLibrary /\ fileStruct = NoFileStruct /\ site = NoSite
    /\ opened = <<>> /\ raised = 0
    /\ data \in StreamInputs
    /\ strLst \in StrLsts
    /\ textFonts \in 0..1
    /\ pos = 0
    /\ reader = "none"
    /\ status = "ready"
    /\ result = NoResult

NextStream ==
    \/ Call_read_type_prefix_short
    \/ Call_read_type_prefix
    \/ Call_read_type_prefix_long
    \/ Call_readPreamble
    \/ Call_readSymbolDisplayProp
    \/ Call_readHierarchy
    \/ Call_parseTypes
    \/ Call_StreamViewsDirectory_read
    \/ Call_StreamPackage_read
    \/ Call_parsePage
    \/ Call_readProperties
    \/ Call_TrailingProperties_read
    \/ Call_readPinIdxMapping
    \/ Call_readWireScalar
    \/ Call_parseGeometrySpecification
    \/ Call_parseStructure
    \/ Call_StructBusEntry_read
    \/ Call_StructSthInPages0_read
    \/ Call_StructGlobal_read
    \/ Call_readSthInPages0
    \/ Call_readERCSymbol
    \/ Call_readSymbolVector
    \/ Call_discard_until_preamble
    \/ Call_pageRecords
    \/ Call_graphicBoxRecord

SpecStream == InitStream /\ [][NextStream]_vars

(***************************************************************************)
(* Claims about the byte level readers (checked under SpecStream)          *)
(***************************************************************************)
PrefixReaders == {"read_type_prefix_short", "read_type_prefix", "read_type_prefix_long"}

\* C2: no prefix reader returns successfully with a tag that differs from its
\* repeated tag: the short form's tag and tag_rep, and the outer tag of the
\* standard and long forms and the tag of the inner form, are equal.
C2_PrefixTagsAgree ==
    (status = "ok" /\ reader \in PrefixReaders) =>
        \A i \in 1..Len(result.tags) : result.tags[i][1] = result.tags[i][2]

TopLevelReaders ==
    {"parsePage", "StreamPackage::read", "StreamViewsDirectory::read", "readHierarchy",
     "parseTypes"}

\* C3: a top level stream reader (Page, Package, ViewsDirectory, Hierarchy,
\* Types) that returns successfully leaves the stream at EOF.
C3_TopLevelReadersEndAtEoF ==
    (status = "ok" /\ reader \in TopLevelReaders) => pos = Len(data)

LookupReaders == {"read_type_prefix_short", "readSymbolDisplayProp"}

\* C4: every string table lookup maps index 0 to the empty string and index
\* k > 0 to strLst[k-1]; the lookups fail exactly when an index exceeds the
\* length of strLst.
C4_StringTableLookup ==
    (status # "ready" /\ reader \in LookupReaders /\ result.idx # <<>>) =>
        /\ result.err = "strLst" <=> \E i \in 1..Len(result.idx) : result.idx[i] > Len(strLst)
        /\ result.err # "strLst" =>
             /\ Len(result.looked) = Len(result.idx)
             /\ \A i \in 1..Len(result.idx) :
                   result.looked[i] = IF result.idx[i] = 0 THEN ""
                                      ELSE strLst[result.idx[i]]

\* the packed 16 bit word of a SymbolDisplayProp record: the u16 at offset 8
PackedWord == Uint16At(data, 8)

\* C11: a successful readSymbolDisplayProp on the packed word p returns
\* textFontIdx = p & 0xFF, at most the length of the text font table, the
\* bits (p >> 8) & 0x3F are zero and rotation = p >> 14 is in 0..3; a word
\* with a reserved bit set or with textFontIdx above the table length fails.
C11_PackedWordOfDisplayProp ==
    (status # "ready" /\ reader = "readSymbolDisplayProp" /\ Len(data) >= 10) =>
        /\ status = "ok" =>
              /\ result.out[2] = PackedWord % 256
              /\ result.out[2] <= textFonts
              /\ (PackedWord \div 256) % 64 = 0
              /\ result.out[3] = PackedWord \div 16384
              /\ result.out[3] \in 0..3
        /\ ((PackedWord \div 256) % 64 # 0 \/ PackedWord % 256 > textFonts) =>
              status = "failed"

C11_Witness ==
    /\ reader = "readSymbolDisplayProp" /\ status = "ok"
    /\ PackedWord = 49152 /\ result.out[3] = 3 /\ textFonts = 1

\* the string at offset p of the stream and the offset after it
NameAt(p) == StringAt(data, p)
After(p) == p + Len(StringAt(data, p)) + 1

\* C12: Properties with viewNumber 1 reads no convertName and then name;
\* with viewNumber 2 convertName and then name; any other viewNumber fails
\* with the stream left right after the viewNumber field.  The first name is
\* result.out[3], the second result.out[4]; for TrailingProperties these are
\* normalName and convertName: 1 reads normalName only, 2 both, others fail.
C12_ViewNumberDecidesNames ==
    (status # "ready" /\ result.out # <<>>
       /\ reader \in {"readProperties", "TrailingProperties::read"}) =>
        LET v  == result.out[1]
            at == result.out[2]
        IN  /\ v \notin {1, 2} => (status = "failed" /\ pos = at
                                     /\ result.out[3] = <<>> /\ result.out[4] = <<>>)
            /\ (v \in {1, 2} /\ status = "ok" /\ reader = "readProperties") =>
                  /\ result.out[3] = IF v = 2 THEN NameAt(at) ELSE <<>>
                  /\ result.out[4] = IF v = 2 THEN NameAt(After(at)) ELSE NameAt(at)
                  /\ pos = (IF v = 2 THEN After(After(at)) ELSE After(at)) + 29
            /\ (v \in {1, 2} /\ status = "ok" /\ reader = "TrailingProperties::read") =>
                  /\ result.out[3] = NameAt(at)
                  /\ result.out[4] = IF v = 2 THEN NameAt(After(at)) ELSE <<>>
                  /\ pos = IF v = 2 THEN After(After(at)) ELSE After(at)

C12_Witness ==
    /\ reader = "readProperties" /\ status = "ok"
    /\ result.out = <<2, 7, <<67>>, <<78>> >>

\* the layout of a PinIdxMapping record, walked from the bytes of the stream:
\* the offset of the pinCount field, pinCount, the offset of pin i (the pin
\* after the last one starts where the record ends) and its separator byte
PinCountAt == After(After(0))
PinCount == Uint16At(data, PinCountAt)
RECURSIVE PinStart(_)
PinStart(i) == IF i = 1 THEN PinCountAt + 2 ELSE After(PinStart(i - 1)) + 1
Separator(i) == IF PinStart(i + 1) <= Len(data) THEN data[PinStart(i + 1)] ELSE -1
FirstBadPin == CHOOSE i \in 1..PinCount :
                   /\ Separator(i) \notin PinSeparators
                   /\ \A j \in 1..(i - 1) : Separator(j) \in PinSeparators

\* C13: on a stream that holds the record, readPinIdxMapping succeeds exactly
\* when each of the pinCount separators is 0x7F, 0xAA or 0xFF; on success
\* pinMap holds the pinCount names in stream order, and a failure happens
\* right after the first separator outside the set.
C13_PinSeparators ==
    (status # "ready" /\ reader = "readPinIdxMapping" /\ result.err # "eof") =>
        /\ status = "ok" <=> \A i \in 1..PinCount : Separator(i) \in PinSeparators
        /\ status = "ok" =>
              /\ result.out = [i \in 1..PinCount |-> NameAt(PinStart(i))]
              /\ pos = PinStart(PinCount + 1)
        /\ status = "failed" => pos = PinStart(FirstBadPin + 1)

C13_Witness ==
    /\ reader = "readPinIdxMapping" /\ status = "ok"
    /\ result.out = << <<49>>, <<50, 51>>, <<>> >>

C13_WitnessFailure ==
    /\ reader = "readPinIdxMapping" /\ result.err = "separator"
    /\ PinCount = 3 /\ FirstBadPin = 2

\* the nested records lie one behind the other from offset p to offset q,
\* each a prefix, a preamble and a record
RECURSIVE Contiguous(_, _, _)
Contiguous(nested, p, q) ==
    IF nested = <<>> THEN p = q
    ELSE /\ Head(nested)[1] = p
         /\ Head(nested)[2] > Head(nested)[1]
         /\ Head(nested)[3] >= Head(nested)[2] + 4
         /\ Head(nested)[4] >= Head(nested)[3]
         /\ Contiguous(Tail(nested), Head(nested)[4], q)

\* C14: between the opaque byte after endY (the reader is then at offset
\* result.out[2]) and the final block of 2 opaque bytes, lineWidth and
\* lineStyle (which starts at result.out[3]), a successful readWireScalar reads
\* exactly 2 bytes when the byte offset of its prefix is 0x3D, a u16 len and
\* len nested records when it is above 0x3D, and nothing when it is below.
C14_WireScalarMiddle ==
    (status = "ok" /\ reader = "readWireScalar") =>
        LET mByteOffset == Uint32At(data, 1)
            from        == result.out[2]
            to          == result.out[3]
            nested      == result.out[4]
        IN  /\ result.out[1] = mByteOffset
            /\ pos = to + 10
            /\ mByteOffset = 61 => (to = from + 2 /\ nested = <<>>)
            /\ mByteOffset < 61 => (to = from /\ nested = <<>>)
            /\ mByteOffset > 61 => /\ Len(nested) = Uint16At(data, from)
                                    /\ Contiguous(nested, from + 2, to)

C14_Witness ==
    /\ reader = "readWireScalar" /\ status = "ok"
    /\ result.out[1] = 62 /\ Len(result.out[4]) = 2

C14_WitnessEqual ==
    reader = "readWireScalar" /\ status = "ok" /\ result.out[1] = 61

C14_WitnessBelow ==
    reader = "readWireScalar" /\ status = "ok" /\ result.out[1] = 60

\* the offsets of the iterations of the loop of parseGeometrySpecification
\* that ran, the version it ran as and geometryCount
GeometryExtents == result.out[2]
GeometryVersion == result.out[3]
GeometryCountAt == After(0) + 7
MagicAt(p) == SubSeq(data, p + 1, p + 4) = <<255, 228, 92, 57>>

\* C15: around the primitives a successful parseGeometrySpecification reads,
\* as version A, 8 bytes after every primitive and nothing before it; as
\* version B, a standard type prefix and a preamble before every primitive but
\* the first and nothing after; as version C, a preamble only before every
\* primitive but the first and nothing after.
C15_BytesAroundPrimitives ==
    (status = "ok" /\ reader = "parseGeometrySpecification") =>
        LET e == GeometryExtents
            trailing == IF GeometryVersion = "A" THEN 8 ELSE 0
        IN  /\ Len(e) = Uint16At(data, GeometryCountAt)
            /\ pos = IF e = <<>> THEN GeometryCountAt + 2 ELSE e[Len(e)][4] + trailing
            /\ \A i \in 1..Len(e) :
                  /\ e[i][1] = IF i = 1 THEN GeometryCountAt + 2 ELSE e[i - 1][4] + trailing
                  /\ (i = 1 \/ GeometryVersion = "A") => (e[i][2] = e[i][1] /\ e[i][3] = e[i][1])
                  /\ (i > 1 /\ GeometryVersion = "B") =>
                        (e[i][2] >= e[i][1] + 21 /\ MagicAt(e[i][2]) /\ e[i][3] >= e[i][2] + 8)
                  /\ (i > 1 /\ GeometryVersion = "C") =>
                        (e[i][2] = e[i][1] /\ MagicAt(e[i][2]) /\ e[i][3] >= e[i][2] + 8)

C15_Witness ==
    /\ reader = "parseGeometrySpecification" /\ status = "ok"
    /\ GeometryVersion = "B" /\ Len(GeometryExtents) = 3

C15_WitnessA ==
    /\ reader = "parseGeometrySpecification" /\ status = "ok"
    /\ GeometryVersion = "A" /\ Len(GeometryExtents) = 2

C15_WitnessC ==
    /\ reader = "parseGeometrySpecification" /\ status = "ok"
    /\ GeometryVersion = "C" /\ Len(GeometryExtents) = 2

\* the bodies of the primitives of the given kind among the iterations e, in
\* stream order: a primitive is its two kind bytes and its body
RECURSIVE BodiesOf(_, _)
BodiesOf(e, kind) ==
    IF e = <<>> THEN <<>>
    ELSE (IF data[Head(e)[3] + 1] = kind
          THEN << SubSeq(data, Head(e)[3] + 3, Head(e)[4]) >> ELSE <<>>)
         \o BodiesOf(Tail(e), kind)

\* C16: the GeometrySpecification a successful parseGeometrySpecification
\* returns has the name read at the start of the record and holds, in its
\* sequences per kind, all geometryCount primitives read, in stream order.
C16_NamedBagOfAllPrimitives ==
    (status = "ok" /\ reader = "parseGeometrySpecification") =>
        LET obj == result.out[1]
        IN  /\ obj.name = NameAt(0)
            /\ Len(obj.rects) + Len(obj.lines) + Len(obj.arcs) = Uint16At(data, GeometryCountAt)
            /\ obj.rects = BodiesOf(GeometryExtents, 40)
            /\ obj.lines = BodiesOf(GeometryExtents, 41)
            /\ obj.arcs  = BodiesOf(GeometryExtents, 42)

ByteLevelStructures == {"Properties", "PinIdxMapping", "SymbolDisplayProp", "WireScalar"}

\* the reader of a Structure: the reader that carries its name, for the
\* structures whose reader is modelled byte by byte
ReaderNamed(structure) ==
    CASE structure = "Properties"        -> "readProperties"
      [] structure = "PinIdxMapping"     -> "readPinIdxMapping"
      [] structure = "SymbolDisplayProp" -> "readSymbolDisplayProp"
      [] structure = "WireScalar"        -> "readWireScalar"

\* the state in which that reader, run on the stream from its start in the
\* context ctx, leaves the stream
LeftBy(structure, ctx) ==
    CASE structure = "Properties"        -> readProperties(data, Start).s
      [] structure = "PinIdxMapping"     -> readPinIdxMapping(data, Start).s
      [] structure = "SymbolDisplayProp" ->
             readSymbolDisplayProp(data, Start, ctx.strs, ctx.nFonts).s
      [] structure = "WireScalar"        ->
             readWireScalar(data, Start, ctx.strs, ctx.mByteOffset, ctx.len).s

\* C17: parseStructure given a Structure that has a case runs the reader of
\* that Structure (the stream is left as that reader leaves it) and returns a
\* pair whose first component is the Structure given; given a Structure with
\* no case it throws without having consumed a byte.
C17_DispatchByStructure ==
    (status # "ready" /\ reader = "parseStructure") =>
        LET structure == result.out[1]
        IN  /\ structure \in CaseStructures =>
                  /\ result.err # "not implemented"
                  /\ status = "ok" => result.out[2] = structure
                  /\ structure \in ByteLevelStructures =>
                        /\ result.out[3] = ReaderNamed(structure)
                        /\ pos = LeftBy(structure, result.out[4]).pos
                        /\ result.err = LeftBy(structure, result.out[4]).err
            /\ structure \notin CaseStructures =>
                  (status = "failed" /\ result.err = "not implemented" /\ pos = 0)

C17_Witness ==
    /\ reader = "parseStructure" /\ status = "ok"
    /\ result.out[1] = "PinIdxMapping" /\ result.out[3] = "readPinIdxMapping" /\ pos > 6

C17_WitnessDefault ==
    /\ reader = "parseStructure" /\ result.out[1] = "BusEntry" /\ status = "failed"

\* the entries (zero terminated name, u16 component type) of a Types stream
\* from offset p on: their number, -1 when the stream ends inside an entry,
\* and their names
RECURSIVE EntriesFrom(_)
EntriesFrom(p) ==
    IF p >= Len(data) THEN 0
    ELSE IF NulAt(data, p) = -1 \/ NulAt(data, p) + 3 > Len(data) THEN -1
    ELSE IF EntriesFrom(NulAt(data, p) + 3) = -1 THEN -1
    ELSE EntriesFrom(NulAt(data, p) + 3) + 1

RECURSIVE TypeNamesFrom(_)
TypeNamesFrom(p) ==
    IF p >= Len(data) THEN <<>> ELSE <<NameAt(p)>> \o TypeNamesFrom(After(p) + 2)

\* C18: parseTypes returns the empty list on a stream of length zero, the k
\* names in stream order on a stream of k complete entries, leaving the
\* stream at EOF, and fails on a stream that ends inside an entry (streams
\* with a component type outside the enum aside).
C18_TypesEntries ==
    (status # "ready" /\ reader = "parseTypes" /\ result.err # "enum") =>
        /\ Len(data) = 0 => (status = "ok" /\ result.out = <<>>)
        /\ EntriesFrom(0) = -1 => status = "failed"
        /\ EntriesFrom(0) >= 0 =>
              /\ status = "ok" /\ pos = Len(data)
              /\ Len(result.out) = EntriesFrom(0)
              /\ result.out = TypeNamesFrom(0)

C18_Witness ==
    /\ reader = "parseTypes" /\ status = "ok"
    /\ result.out = << <<84>>, <<84>>, <<85>> >>

C18_WitnessEmpty ==
    reader = "parseTypes" /\ status = "ok" /\ Len(data) = 0

C18_WitnessPartial ==
    /\ reader = "parseTypes" /\ status = "failed" /\ result.err = "eof"
    /\ data = <<84, 0, 9, 0, 85, 0, 9>>

FutureDataReaders == {"StructBusEntry::read", "StructSthInPages0::read", "StructGlobal::read"}

\* the end of the region the standard prefix at the start of the stream
\* declares: its byte offset counted from the end of its short form
ShortFormSize == 12 + 8 * (IF Int16At(data, 19) > 0 THEN Int16At(data, 19) ELSE 0)
RegionEnd == 9 + ShortFormSize + Uint32At(data, 1)

C19_WitnessBusEntry ==
    reader = "StructBusEntry::read" /\ status = "ok" /\ pos = 51

C19_WitnessGlobal ==
    reader = "StructGlobal::read" /\ status = "ok"

C19_WitnessMismatch ==
    reader \in FutureDataReaders /\ result.err = "checkpoint"

Magic == <<255, 228, 92, 57>>
MagicAhead == Len(data) >= 4 /\ SubSeq(data, 1, 4) = Magic

\* C20: readPreamble succeeds only if the next four bytes are FF E4 5C 39.
\* With readOptionalLen it then reads a u32 L, skips exactly L bytes and
\* returns L, 4 + 4 + L bytes consumed in all; without, it consumes the four
\* magic bytes only and returns 0.  It fails when the magic does not match,
\* and otherwise only when the stream ends before the bytes it reads.
C20_PreambleMagicAndLength ==
    reader = "readPreamble" =>
        /\ status = "ok" => MagicAhead
        /\ ~MagicAhead => status = "failed"
        /\ (status = "ok" /\ result.out[2]) =>
              /\ result.out[1] = Uint32At(data, 4)
              /\ pos = 4 + 4 + Uint32At(data, 4)
        /\ (status = "ok" /\ ~result.out[2]) => (result.out[1] = 0 /\ pos = 4)
        /\ (MagicAhead /\ status = "failed") =>
              (result.out[2] /\ (Len(data) < 8 \/ Len(data) < 8 + Uint32At(data, 4)))

C20_Witness ==
    /\ reader = "readPreamble" /\ status = "ok" /\ result.out[2]
    /\ result.out[1] = 2 /\ pos = 10 /\ Len(data) = 11

C20_WitnessNoLen ==
    reader = "readPreamble" /\ status = "ok" /\ ~result.out[2] /\ pos = 4 /\ Len(data) > 8

C20_WitnessMagic ==
    reader = "readPreamble" /\ status = "failed" /\ Len(data) >= 8 /\ ~MagicAhead

\* the size field of the short prefix at the start of the stream and the
\* number of pairs that follow it
ShortSize == Int16At(data, 10)
ShortPairs == IF ShortSize > 0 THEN ShortSize ELSE 0

\* the short prefix at the start of the stream is whole, its two tags are
\* Structures and its indices are within the string list
ShortAccepted ==
    /\ Len(data) >= 12
    /\ Len(data) >= 12 + 8 * ShortPairs
    /\ data[1] \in StructureTags /\ data[10] \in StructureTags
    /\ \A i \in 0..(2 * ShortPairs - 1) : Uint32At(data, 12 + 4 * i) <= Len(strLst)

\* C21: read_type_prefix_short consumes exactly 12 + 8 * max(size, 0) bytes
\* and returns the leading tag: for size < 0 no pair is read, so size = -1
\* leaves the stream where size = 0 does.  Whether it succeeds does not
\* depend on the length_or_lock field: any value is accepted.
C21_ShortPrefixLength ==
    reader = "read_type_prefix_short" =>
        /\ status = "ok" <=> ShortAccepted
        /\ status = "ok" => (pos = 12 + 8 * ShortPairs /\ result.out = <<data[1]>>)

C21_Witness ==
    /\ reader = "read_type_prefix_short" /\ status = "ok"
    /\ ShortSize = -1 /\ pos = 12 /\ Len(data) = 20 /\ Uint32At(data, 1) = 7

C21_WitnessZero ==
    /\ reader = "read_type_prefix_short" /\ status = "ok"
    /\ ShortSize = 0 /\ pos = 12 /\ Len(data) = 20 /\ Uint32At(data, 1) = 7

C21_WitnessPairs ==
    /\ reader = "read_type_prefix_short" /\ status = "ok"
    /\ ShortSize = 2 /\ pos = 28 /\ Uint32At(data, 1) = 11

\* the number of pairs of the short form whose size field is at offset p
PairsAt(p) == IF Int16At(data, p) > 0 THEN Int16At(data, p) ELSE 0

\* the stream starts with a long prefix as the reader takes it: a tag, two
\* bytes, six zero bytes and a standard prefix of that tag, i.e. a tag, the
\* byte offset, four zero bytes and a short form of that tag
LongAccepted ==
    /\ Len(data) >= 30
    /\ Len(data) >= 30 + 8 * PairsAt(28)
    /\ data[1] \in StructureTags /\ SubSeq(data, 4, 9) = Zeros(6)
    /\ data[10] = data[1] /\ SubSeq(data, 15, 18) = Zeros(4)
    /\ data[19] = data[10] /\ data[28] \in StructureTags
    /\ \A i \in 0..(2 * PairsAt(28) - 1) : Uint32At(data, 30 + 4 * i) <= Len(strLst)

\* C22 as stated: behind its 9 leading bytes read_type_prefix_long reads one
\* short form and nothing else, so that it consumes 9 + 12 + 8 * max(size, 0)
\* bytes, size being the i16 at offset 19.
C22_LongIsNineBytesAndShortForm ==
    (reader = "read_type_prefix_long" /\ status = "ok") =>
        (pos = 9 + 12 + 8 * PairsAt(19) /\ result.out = <<data[1]>>)

\* C22 amended: behind its 9 leading bytes (tag, 2 reserved bytes, 6 zero
\* bytes) read_type_prefix_long reads one standard prefix and nothing else:
\* a tag, the u32 byte offset, 4 zero bytes and a short form.  It succeeds
\* exactly when the zero bytes are zero, the three tags are equal and the
\* short form is accepted; it then has consumed 18 + 12 + 8 * max(size, 0)
\* bytes and returns the leading tag.
C22_LongIsNineBytesAndStandardForm ==
    reader = "read_type_prefix_long" =>
        /\ status = "ok" <=> LongAccepted
        /\ status = "ok" => (pos = 30 + 8 * PairsAt(28) /\ result.out = <<data[1]>>)

C22_Witness ==
    /\ reader = "read_type_prefix_long" /\ status = "ok"
    /\ PairsAt(28) = 1 /\ pos = 38

C22_WitnessZeros ==
    /\ reader = "read_type_prefix_long" /\ status = "failed"
    /\ Len(data) >= 30 /\ data[9] # 0 /\ data[1] = data[10] /\ data[10] = data[19]

C22_WitnessTags ==
    /\ reader = "read_type_prefix_long" /\ status = "failed"
    /\ Len(data) >= 30 /\ data[9] = 0 /\ data[1] # data[10] /\ data[10] = data[19]

GeometryContextReaders ==
    {"parseGeometrySpecification", "readSthInPages0", "readERCSymbol", "readSymbolVector"}

\* the offsets at which the kind bytes of the primitives read begin
PrefixStarts ==
    IF reader = "parseGeometrySpecification"
    THEN [i \in 1..Len(GeometryExtents) |-> GeometryExtents[i][3]]
    ELSE result.out

\* offset of the first magic at or after p, -1 when there is none
RECURSIVE FirstMagic(_)
FirstMagic(p) ==
    IF p + 4 > Len(data) THEN -1
    ELSE IF MagicAt(p) THEN p
    ELSE FirstMagic(p + 1)

\* offset of the count of primitives of the geometry context at the start of
\* the stream, as the reader that ran takes it; -1 when the stream has none
PrimitiveCountAt ==
    CASE reader = "parseGeometrySpecification" ->
             IF NulAt(data, 0) = -1 THEN -1 ELSE GeometryCountAt
      [] reader = "readSthInPages0"  -> 10
      [] reader = "readERCSymbol"    -> IF NulAt(data, 0) = -1 THEN -1 ELSE After(0) + 7
      [] reader = "readSymbolVector" -> IF FirstMagic(0) = -1 THEN -1 ELSE FirstMagic(0) + 12

\* the stream holds a count of at least one primitive and three bytes behind it
FirstPrefixAhead ==
    /\ PrimitiveCountAt # -1
    /\ Len(data) >= PrimitiveCountAt + 5
    /\ Uint16At(data, PrimitiveCountAt) >= 1

\* the three bytes at offset p are a kind, a zero byte and the kind again
KindZeroKind(p) == data[p + 2] = 0 /\ data[p + 3] = data[p + 1]

\* the two bytes at offset p are a kind and the kind again
KindKind(p) == data[p + 2] = data[p + 1]

\* C23 as stated: every primitive read in a geometry context
\* (parseGeometrySpecification, readSthInPages0, readERCSymbol,
\* readSymbolVector) is preceded by three bytes: kind, 0x00, kind.
C23_ThreeBytePrimitivePrefix ==
    (status = "ok" /\ reader \in GeometryContextReaders) =>
        \A i \in 1..Len(PrefixStarts) : KindZeroKind(PrefixStarts[i])

\* C23 amended: every primitive read by parseGeometrySpecification,
\* readSthInPages0 and readERCSymbol is preceded by two bytes, the kind and
\* the kind again; every primitive read by readSymbolVector by three bytes,
\* the kind, 0x00 and the kind again.  The kind bytes must match and be a
\* GeometryStructure: a first prefix whose kind bytes differ, or whose middle
\* byte in readSymbolVector is not zero, fails the record.
C23_PrimitivePrefixes ==
    reader \in GeometryContextReaders =>
        /\ status = "ok" =>
              /\ Len(PrefixStarts) = Uint16At(data, PrimitiveCountAt)
              /\ PrefixStarts # <<>> => PrefixStarts[1] = PrimitiveCountAt + 2
              /\ \A i \in 1..Len(PrefixStarts) :
                    /\ data[PrefixStarts[i] + 1] \in GeometryStructures
                    /\ IF reader = "readSymbolVector" THEN KindZeroKind(PrefixStarts[i])
                       ELSE KindKind(PrefixStarts[i])
        /\ (FirstPrefixAhead /\ reader = "readSymbolVector"
              /\ ~KindZeroKind(PrimitiveCountAt + 2)) => status = "failed"
        /\ (FirstPrefixAhead /\ reader # "readSymbolVector"
              /\ ~KindKind(PrimitiveCountAt + 2)) => status = "failed"

C23_Witness ==
    /\ reader = "readSthInPages0" /\ status = "ok" /\ Len(PrefixStarts) = 2

C23_WitnessERCSymbol ==
    /\ reader = "readERCSymbol" /\ status = "ok" /\ Len(PrefixStarts) = 2

C23_WitnessSymbolVector ==
    /\ reader = "readSymbolVector" /\ status = "ok" /\ Len(PrefixStarts) = 2
    /\ PrefixStarts[1] = 16

C23_WitnessGeometry ==
    /\ reader = "parseGeometrySpecification" /\ status = "ok" /\ Len(PrefixStarts) = 3

C23_WitnessKindsDiffer ==
    /\ reader = "readERCSymbol" /\ status = "failed" /\ FirstPrefixAhead
    /\ ~KindKind(PrimitiveCountAt + 2) /\ result.err = "geometry"

C23_WitnessMiddleByte ==
    /\ reader = "readSymbolVector" /\ status = "failed" /\ FirstPrefixAhead
    /\ data[PrimitiveCountAt + 4] = 1 /\ data[PrimitiveCountAt + 5] = data[PrimitiveCountAt + 3]
    /\ result.err = "assume"


\* where the body of the SthInPages0 at the start of the stream begins
\* (behind the standard prefix and the preamble with its optional bytes) and
\* where its tail begins (behind name, someStr0, color, the count and the
\* primitives, of four bytes each)
RawBodyAt == 9 + ShortFormSize + 8 + Uint32At(data, 9 + ShortFormSize + 4)
RawColorAt == After(After(RawBodyAt))
RawTailAt == RawColorAt + 6 + 4 * Uint16At(data, RawColorAt + 4)

\* the checkpoints StructSthInPages0::read took: behind the preamble, behind
\* someStr0, behind the tail
RawCheckpoints == result.out[2]
RawTailPassed == reader = "StructSthInPages0::read" /\ Len(RawCheckpoints) = 3

C24_WitnessSkip ==
    /\ RawTailPassed /\ status = "ok" /\ RegionEnd - RawTailAt = 2 /\ pos = RegionEnd
    /\ Len(data) >= RawTailAt + 8

C24_WitnessNoBoundaryAhead ==
    /\ RawTailPassed /\ RegionEnd = RawColorAt /\ pos = RawTailAt

C24_WitnessBeyondEnd ==
    /\ reader = "StructSthInPages0::read" /\ Len(RawCheckpoints) = 2
    /\ RegionEnd > Len(data) /\ result.err = "eof"


(***************************************************************************)
(* Further claims about the library assembler (checked under Spec)         *)
(***************************************************************************)

\* C25: at every point of a run mFileErrCtr <= mFileCtr; mFileCtr is the
\* number of parseFile calls made so far, mFileErrCtr the number of those in
\* which opening or parsing raised; neither counter ever decreases.
C25_CountersCountCallsAndRaises ==
    /\ [](mFileErrCtr <= mFileCtr /\ mFileCtr = Len(opened) /\ mFileErrCtr = raised)
    /\ [][mFileCtr' >= mFileCtr /\ mFileErrCtr' >= mFileErrCtr]_vars


\* the paths parseFile was called with so far, and the last of them
OpenedFiles == { opened[i] : i \in 1..Len(opened) }
LastOpened == opened[Len(opened)]
Constructed == pc \in {"constructed", "parsing", "done", "aborted", "destroyed"}

\* C26: each extracted file is opened at most once per Parser.  openFile
\* removes the file from mRemainingFiles before it is parsed; opening a file
\* that is not in mRemainingFiles fails, leaves the current data stream as it
\* is and is counted as a failed stream; the files already opened and
\* mRemainingFiles are disjoint and together the regular files found at
\* construction.
C26_FilesOpenedAtMostOnce ==
    /\ [](Constructed =>
            /\ OpenedFiles \cap mRemainingFiles = {}
            /\ (OpenedFiles \cap container.files) \cup mRemainingFiles = container.files)
    /\ [][opened' # opened =>
            /\ IF LastOpened' \in mRemainingFiles
               THEN /\ mRemainingFiles' = mRemainingFiles \ {LastOpened'}
                    /\ LastOpened' \notin OpenedFiles
               ELSE /\ mRemainingFiles' = mRemainingFiles
                    /\ mFileErrCtr' = mFileErrCtr + 1
                    /\ dsOpen' = dsOpen /\ mCurrOpenFile' = mCurrOpenFile]_vars

C26_Witness ==
    /\ pc = "done" /\ Len(opened) >= 10 /\ mRemainingFiles # {}
    /\ OpenedFiles \subseteq container.files

\* a file is opened again while the stream that failed before it is still the
\* current one
C26_WitnessNotRemaining ==
    /\ Len(opened) > Cardinality(OpenedFiles) /\ LastOpened \notin mRemainingFiles
    /\ mFileErrCtr >= 2 /\ dsOpen /\ mCurrOpenFile # <<>> /\ mCurrOpenFile # LastOpened


\* C27: at most one stream is open at any time, and whenever parseFile
\* returns, on the success path and on the failure path alike, the stream it
\* opened has been closed: closeFile has run and mCurrOpenFile is empty
\* (mCurrOpenFileSize is assigned wherever mCurrOpenFile is).
C27_StreamClosedWhenParseFileReturns ==
    [][opened' # opened => (~dsOpen' /\ mCurrOpenFile' = <<>>)]_vars


\* C28: discard_until_preamble returns or fails on every finite stream.  If
\* the magic FF E4 5C 39 occurs in the stream, it returns with the stream at
\* the start of the first occurrence and the readPreamble that follows
\* accepts the magic; if it does not occur, the read behind the last byte
\* fails.  result.out[1] is what that readPreamble threw.
C28_DiscardStopsAtFirstMagic ==
    reader = "discard_until_preamble" =>
        /\ status \in {"ok", "failed"}
        /\ FirstMagic(0) # -1 =>
              /\ status = "ok" /\ pos = FirstMagic(0)
              /\ result.out[1] \in {"none", "eof"}
              /\ (Len(data) >= pos + 8 /\ Len(data) >= pos + 8 + Uint32At(data, pos + 4))
                    => result.out[1] = "none"
        /\ FirstMagic(0) = -1 => (status = "failed" /\ result.err = "eof" /\ pos = Len(data))

C28_Witness ==
    /\ reader = "discard_until_preamble" /\ status = "ok" /\ pos = 3
    /\ result.out[1] = "none" /\ data[1] = 255

C28_WitnessAbsent ==
    /\ reader = "discard_until_preamble" /\ status = "failed" /\ Len(data) >= 5

C28_WitnessSecondMagic ==
    /\ reader = "discard_until_preamble" /\ status = "ok" /\ pos = 3
    /\ Len(data) >= 11 /\ MagicAt(7)


\* the streams under Packages/, and the symbol streams under Symbols/
PackageStreams == { f \in container.files : Len(f) = 2 /\ f[1] = "Packages" }
SymbolStreams ==
    { f \in container.files : Len(f) = 2 /\ f[1] = "Symbols" /\ f[2] \notin {"$Types$.bin", "ERC.bin"} }
IsPackageOrSymbol(f) == f \in PackageStreams \cup SymbolStreams

\* the package and symbol streams in the order in which parseFile was called
PackagesParsed == SelectSeq(opened, IsPackageOrSymbol)

\* C29: after parseLibrary returns, Library.packages has one entry for every
\* stream under Packages/ and every symbol stream under Symbols/ ($Types$.bin
\* and ERC.bin left out), whether or not the stream parsed; a stream that
\* failed contributes a default constructed entry at its position, so the
\* entries are in the order in which the streams were parsed.
C29_OnePackageEntryPerStream ==
    pc = "done" =>
        /\ Len(mLibrary.packages) = Cardinality(PackageStreams) + Cardinality(SymbolStreams)
        /\ Len(mLibrary.packages) = Len(PackagesParsed)
        /\ \A i \in 1..Len(PackagesParsed) :
              /\ mLibrary.packages[i] \in {DefaultObj, [from |-> PackagesParsed[i]]}
              /\ (raised = 0 /\ mFileErrCtr = 0) => mLibrary.packages[i] # DefaultObj
        /\ \A i \in 1..Len(PackagesParsed) : \A j \in 1..Len(PackagesParsed) :
              (PackagesParsed[i][1] = "Packages" /\ PackagesParsed[j][1] = "Symbols") => i < j

\* the package failed, the symbol parsed
C29_Witness ==
    /\ pc = "done" /\ Len(mLibrary.packages) = 2 /\ raised = 1
    /\ mLibrary.packages[1] = DefaultObj /\ mLibrary.packages[2] # DefaultObj
    /\ <<"Symbols", "ERC.bin">> \in container.files

C29_WitnessAllParsed ==
    /\ pc = "done" /\ Len(mLibrary.packages) = 2 /\ raised = 0
    /\ mLibrary.packages[1] # DefaultObj /\ mLibrary.packages[2] # DefaultObj


ByteOffsetReaders == {"parsePage (len2, len3)", "readGraphicBoxInst (record)"}

\* the tests of mByteOffset readWireScalar made: <<offset of the record's
\* standard prefix, the value tested, the offset of the standard prefix that
\* assigned it>>
ByteOffsetTests == result.out

\* C30: whenever readWireScalar tests mByteOffset, it holds the byte offset
\* of the standard prefix of that same WireScalar record: a read_type_prefix
\* of the record assigned it since the stream was opened and no other ran
\* since, so the value is never what the Parser held before the stream was
\* opened nor that of a nested or sibling record.
C30_WireScalarTestsItsOwnOffset ==
    reader \in ByteOffsetReaders =>
        \A i \in 1..Len(ByteOffsetTests) :
            /\ ByteOffsetTests[i][3] # -1
            /\ ByteOffsetTests[i][3] = ByteOffsetTests[i][1]
            /\ data[ByteOffsetTests[i][1] + 1] = WireScalarTag
            /\ ByteOffsetTests[i][2] = Uint32At(data, ByteOffsetTests[i][1] + 1)

\* a WireScalar with a nested WireScalar, and a sibling behind them, in a
\* Parser that held another value when the stream was opened
C30_Witness ==
    /\ reader = "parsePage (len2, len3)" /\ status = "ok" /\ Len(ByteOffsetTests) = 3
    /\ ByteOffsetTests[1][2] = 62 /\ ByteOffsetTests[2][2] = 60 /\ ByteOffsetTests[3][2] = 61
    /\ result.idx = <<0>>

\* a WireScalar behind the 47 byte turn of the len3 loop
C30_WitnessVeryLong ==
    /\ reader = "parsePage (len2, len3)" /\ status = "ok" /\ Len(ByteOffsetTests) = 1
    /\ ByteOffsetTests[1][2] = 60 /\ result.idx = <<62>>

C30_WitnessLong ==
    /\ reader = "readGraphicBoxInst (record)" /\ status = "ok" /\ Len(ByteOffsetTests) = 2
    /\ ByteOffsetTests[1][1] = 9 /\ result.idx = <<61>>

====
